---- MODULE Spec2Model ----
(***************************************************************************)
(* CCTView hot-cache migration engine: Redis caption entries are scanned   *)
(* near expiry, grouped per camera into merged events, written to Neo4j    *)
(* and deleted from Redis.                                                 *)
(*                                                                         *)
(* Units: timestamps are integers counting milliseconds (an ISO timestamp  *)
(* parsed by datetime.fromisoformat); TTLs, the clock and the configured   *)
(* durations count seconds, as in the source.  A confidence is the exact   *)
(* rational <<numerator, denominator>> of percent points.                  *)
(* Event ids are the strings the source formats; cache keys are triples    *)
(* <<facet, camera, timestamp>>, and are the formatted strings themselves  *)
(* where splitting and pattern matching are studied (SpecKeys).            *)
(***************************************************************************)
EXTENDS Integers, Sequences, FiniteSets, Bags, TLC

VARIABLES
    \* ---- MigrationService fields (migration_service.py:27-29)
    min_duration,        \* self.min_duration, seconds
    max_duration,        \* self.max_duration, seconds
    \* ---- one call of _deduplicate_captions, statement by statement
    d_scanned,           \* expiring_keys of the run that calls the pass
    d_pc,                \* "idle" | "loop" | "done"
    d_captions,          \* the argument: one camera's items, sorted by timestamp
    d_i,                 \* loop index i (1-based position of the next item)
    current_group,       \* local current_group
    grouped_events,      \* local grouped_events
    d_members,           \* history: positions of the items in current_group
    d_closed,            \* history: every group closed so far, with its members
    \* ---- repeated calls of _store_event_in_neo4j with the same arguments
    p_camera,            \* the camera_id argument
    p_event,             \* the event_data argument
    p_results,           \* the values returned so far
    \* ---- calls of _are_captions_similar on a pair of records
    s_a,                 \* one record: [caption, embedding]
    s_b,                 \* the other record
    s_calls,             \* the calls made so far, with the values returned
    \* ---- read-only calls on the cache
    preview_response,    \* what preview_camera_migration returned
    scan_result,         \* what a call of get_keys_near_expiry returned
    cursor_scan,         \* one call of get_keys_near_expiry, await by await
    \* ---- the migration API (endpoints/migration.py)
    api_request,         \* the request being served, and its response
    \* ---- the deployed system
    clock,               \* seconds since the first frame
    ticks,               \* beat intervals counted so far
    redis,               \* the hot cache: key -> [value, ttl]
    neo4j_cameras,       \* ids of the Camera nodes
    neo4j_events,        \* bag of Event nodes, each with its CAPTURED camera
    event_id_constraint, \* whether the event_id uniqueness constraint exists
    runs,                \* the migration invocations in flight
    failures,            \* calls to Redis or Neo4j that have raised so far
    \* ---- history
    beat_ran,            \* a periodic check has returned since the last tick
    stored,              \* meta keys ever written by a producer
    reaped,              \* <<meta key, fate>> for every key a run deleted
    folded               \* bag: meta key -> successful writes that folded it

persist_vars == <<p_camera, p_event, p_results>>
similar_vars == <<s_a, s_b, s_calls>>
read_vars == <<preview_response, scan_result, cursor_scan, api_request>>
dedup_vars == <<d_scanned, d_pc, d_captions, d_i, current_group,
               grouped_events, d_members, d_closed, persist_vars, similar_vars,
               read_vars>>
config_vars == <<min_duration, max_duration>>
store_vars == <<neo4j_cameras, neo4j_events, event_id_constraint>>
time_vars == <<clock, ticks>>
history_vars == <<beat_ran, stored, reaped, folded>>
sys_vars == <<time_vars, redis, store_vars, runs, failures, history_vars>>
vars == <<config_vars, dedup_vars, sys_vars>>

(***************************************************************************)
(* Configuration (app/core/config.py)                                      *)
(***************************************************************************)
CAPTION_SIMILARITY_THRESHOLD == 95
MIN_CAPTION_DURATION == 60
MAX_CAPTION_DURATION == 300
REDIS_TTL_2HOUR == 7200
REDIS_MIGRATION_THRESHOLD == 300
DEFAULT_RETENTION_DAYS == 90
\* beat_schedule["migrate-expiring-captions"]["schedule"] (celery_app.py)
BEAT_SCHEDULE == 60

(***************************************************************************)
(* Bounds of the model                                                     *)
(***************************************************************************)
MaxLen == 3
MaxFailures == 1
MaxTicks == 2
MaxStores == 1
MaxScanTicks == 1
MaxCalls == 2

Cameras == {"cam1", "cam2"}

\* Captions are tuples of characters.
CaptionA == <<"a">>
CaptionAUpper == <<"A", " ">>
CaptionB == <<"b">>

\* Embeddings: absent, or one of three directions at 0, 14 and 27 degrees
\* (cosines: 0.970 between neighbours, 0.894 between the outer two).
NoEmbedding == <<>>

\* what a producer may store under one timestamp
DedupContents ==
    {[caption |-> CaptionA, embedding |-> NoEmbedding, confidence |-> 80],
     [caption |-> CaptionAUpper, embedding |-> NoEmbedding, confidence |-> 60],
     [caption |-> CaptionB, embedding |-> NoEmbedding, confidence |-> 90],
     [caption |-> CaptionA, embedding |-> <<1, 0>>, confidence |-> 80],
     [caption |-> CaptionA, embedding |-> <<4, 1>>, confidence |-> 60],
     [caption |-> CaptionB, embedding |-> <<2, 1>>, confidence |-> 90]}

\* 30 s apart (below MIN_CAPTION_DURATION), 300 s apart (MAX_CAPTION_DURATION
\* exactly), 60 s apart and more than 300 s apart
DedupTimestamps == {0, 30000, 300000, 360000}
DedupMinDurations == {0, MIN_CAPTION_DURATION}

(***************************************************************************)
(* Helpers                                                                 *)
(***************************************************************************)
RECURSIVE SeqToSet(_)
SeqToSet(s) ==
    IF s = <<>> THEN {} ELSE {Head(s)} \cup SeqToSet(Tail(s))

Max(a, b) == IF a >= b THEN a ELSE b

RECURSIVE Dot(_, _)
Dot(u, v) ==
    IF u = <<>> THEN 0 ELSE Head(u) * Head(v) + Dot(Tail(u), Tail(v))

\* str.lower() on the model's alphabet
LowerChar(ch) ==
    IF ch = "A" THEN "a" ELSE IF ch = "B" THEN "b" ELSE ch

Lower(s) == [k \in 1..Len(s) |-> LowerChar(s[k])]

IsSpace(ch) == ch = " "

RECURSIVE LStrip(_)
LStrip(s) ==
    IF s # <<>> /\ IsSpace(Head(s)) THEN LStrip(Tail(s)) ELSE s

RECURSIVE RStrip(_)
RStrip(s) ==
    IF s # <<>> /\ IsSpace(s[Len(s)]) THEN RStrip(SubSeq(s, 1, Len(s) - 1)) ELSE s

\* str.strip()
Strip(s) == LStrip(RStrip(s))

\* set(str.split()): the set of maximal runs of non-space characters
RECURSIVE SplitWords(_, _)
SplitWords(s, word) ==
    IF s = <<>> THEN (IF word = <<>> THEN {} ELSE {word})
    ELSE IF IsSpace(Head(s))
         THEN (IF word = <<>> THEN {} ELSE {word}) \cup SplitWords(Tail(s), <<>>)
         ELSE SplitWords(Tail(s), Append(word, Head(s)))

Words(s) == SplitWords(s, <<>>)

(***************************************************************************)
(* MigrationService._are_captions_similar                                  *)
(***************************************************************************)
\* cosine_similarity(emb1, emb2) >= similarity_threshold, on integer vectors;
\* a zero vector has similarity 0 (sklearn leaves a zero row unnormalised).
CosineAtLeast(embedding1, embedding2, threshold) ==
    LET dot == Dot(embedding1, embedding2)
        n1 == Dot(embedding1, embedding1)
        n2 == Dot(embedding2, embedding2)
    IN  IF n1 = 0 \/ n2 = 0
        THEN 0 >= threshold
        ELSE \/ threshold <= 0 /\ dot >= 0
             \/ threshold <= 0 /\ dot < 0
                    /\ dot * dot * 100 * 100 <= threshold * threshold * n1 * n2
             \/ threshold > 0 /\ dot >= 0
                    /\ dot * dot * 100 * 100 >= threshold * threshold * n1 * n2

\* TextSimilar with the overlap required to exceed 0.8
TextSimilarAbove(caption1, caption2) ==
    LET c1_norm == Strip(Lower(caption1))
        c2_norm == Strip(Lower(caption2))
        words1 == Words(c1_norm)
        words2 == Words(c2_norm)
    IN  IF c1_norm = c2_norm THEN TRUE
        ELSE IF words1 = {} \/ words2 = {} THEN FALSE
        ELSE 10 * Cardinality(words1 \cap words2)
                 > 8 * Max(Cardinality(words1), Cardinality(words2))

\* lines 273-292
TextSimilar(caption1, caption2) ==
    LET c1_norm == Strip(Lower(caption1))
        c2_norm == Strip(Lower(caption2))
        words1 == Words(c1_norm)
        words2 == Words(c2_norm)
    IN  IF c1_norm = c2_norm THEN TRUE
        ELSE IF words1 = {} \/ words2 = {} THEN FALSE
        ELSE 10 * Cardinality(words1 \cap words2)
                 >= 8 * Max(Cardinality(words1), Cardinality(words2))

\* are_captions_similar with the branch chosen by the first embedding alone
are_captions_similar_by_first(caption1, caption2, embedding1, embedding2) ==
    IF embedding1 # <<>>
    THEN /\ embedding2 # <<>>
         /\ Len(embedding1) = Len(embedding2)
         /\ CosineAtLeast(embedding1, embedding2, CAPTION_SIMILARITY_THRESHOLD)
    ELSE TextSimilar(caption1, caption2)

\* lines 260-292
are_captions_similar(caption1, caption2, embedding1, embedding2) ==
    IF embedding1 # <<>> /\ embedding2 # <<>> /\ Len(embedding1) = Len(embedding2)
    THEN CosineAtLeast(embedding1, embedding2, CAPTION_SIMILARITY_THRESHOLD)
    ELSE TextSimilar(caption1, caption2)

(***************************************************************************)
(* MigrationService._deduplicate_captions                                  *)
(***************************************************************************)
\* no group yet
NoGroup == [count |-> 0]

\* the group opened by one item (lines 168-175 and 224-231)
NewGroup(item) ==
    [caption |-> item.data.caption,
     confidence |-> <<item.data.confidence, 1>>,
     start_time |-> item.timestamp,
     end_time |-> item.timestamp,
     embedding |-> item.data.embedding,
     count |-> 1]

\* (end_time - start_time).total_seconds(), in milliseconds
GroupDuration(group) == group.end_time - group.start_time

\* ShouldExtend with the span test made strict
ShouldExtendStrict(group, item) ==
    /\ are_captions_similar(group.caption, item.data.caption,
                            group.embedding, item.data.embedding)
    /\ item.timestamp - group.start_time < max_duration * 1000

\* line 197: is_similar and duration <= self.max_duration
ShouldExtend(group, item) ==
    /\ are_captions_similar(group.caption, item.data.caption,
                            group.embedding, item.data.embedding)
    /\ item.timestamp - group.start_time <= max_duration * 1000

\* ExtendGroup with end_time left at the opener's timestamp
ExtendGroupKeepsEnd(group, item) ==
    [group EXCEPT
        !.count = group.count + 1,
        !.confidence =
            <<group.confidence[1] * group.count
                  + item.data.confidence * group.confidence[2],
              group.confidence[2] * (group.count + 1)>>]

\* lines 199-204
ExtendGroup(group, item) ==
    [group EXCEPT
        !.end_time = item.timestamp,
        !.count = group.count + 1,
        !.confidence =
            <<group.confidence[1] * group.count
                  + item.data.confidence * group.confidence[2],
              group.confidence[2] * (group.count + 1)>>]

\* ShouldSave without the multiple-frames exemption
ShouldSaveDurationOnly(group) ==
    GroupDuration(group) >= min_duration * 1000

\* lines 214-215
ShouldSave(group) ==
    group.count > 1 \/ GroupDuration(group) >= min_duration * 1000

\* ShouldSaveLast with the last group saved unconditionally
ShouldSaveLastAlways(group) == TRUE

\* lines 240-241
ShouldSaveLast(group) ==
    group.count > 1 \/ GroupDuration(group) >= min_duration * 1000

\* one iteration of the for loop (lines 180-232)
LoopBody(group, events, item) ==
    IF ShouldExtend(group, item)
    THEN [current_group |-> ExtendGroup(group, item), grouped_events |-> events]
    ELSE [current_group |-> NewGroup(item),
          grouped_events |->
              IF ShouldSave(group) THEN Append(events, group) ELSE events]

\* lines 234-250
FinalFlush(group, events) ==
    IF ShouldSaveLast(group) THEN Append(events, group) ELSE events

RECURSIVE DedupLoop(_, _, _)
DedupLoop(group, events, rest) ==
    IF rest = <<>> THEN FinalFlush(group, events)
    ELSE LET st == LoopBody(group, events, Head(rest))
         IN  DedupLoop(st.current_group, st.grouped_events, Tail(rest))

deduplicate_captions(captions) ==
    IF captions = <<>> THEN <<>>
    ELSE DedupLoop(NewGroup(captions[1]), <<>>, Tail(captions))

(***************************************************************************)
(* RedisClient (app/db/redis/client.py)                                    *)
(***************************************************************************)
\* f"{facet}:{camera_id}:{timestamp}"
CaptionKey(camera_id, timestamp) == <<"caption", camera_id, timestamp>>
EmbeddingKey(camera_id, timestamp) == <<"embedding", camera_id, timestamp>>
MetaKey(camera_id, timestamp) == <<"meta", camera_id, timestamp>>

Missing == [missing |-> TRUE]

\* a meta value that json.loads rejects
Malformed == [malformed |-> TRUE]

\* a meta value that parses to a dictionary without "caption"
Defective == [defective |-> TRUE]

\* three SETEX with the fixed two-hour TTL
store_caption_with_metadata(cache, camera_id, timestamp, caption, embedding, confidence) ==
    LET event_data == [camera_id |-> camera_id, timestamp |-> timestamp,
                       caption |-> caption, confidence |-> confidence]
        written ==
            (CaptionKey(camera_id, timestamp)
                 :> [value |-> caption, ttl |-> REDIS_TTL_2HOUR])
            @@ (EmbeddingKey(camera_id, timestamp)
                 :> [value |-> embedding, ttl |-> REDIS_TTL_2HOUR])
            @@ (MetaKey(camera_id, timestamp)
                 :> [value |-> event_data, ttl |-> REDIS_TTL_2HOUR])
    IN  written @@ cache

\* the meta JSON plus the embedding when the embedding key holds bytes;
\* an absent embedding reads as the empty list downstream (.get default)
get_caption_with_metadata(cache, camera_id, timestamp) ==
    IF MetaKey(camera_id, timestamp) \notin DOMAIN cache THEN Missing
    ELSE IF cache[MetaKey(camera_id, timestamp)].value = Malformed THEN Missing
    ELSE IF cache[MetaKey(camera_id, timestamp)].value = Defective THEN Defective
    ELSE LET event_data == cache[MetaKey(camera_id, timestamp)].value
             ek == EmbeddingKey(camera_id, timestamp)
         IN  [camera_id |-> event_data.camera_id,
              timestamp |-> event_data.timestamp,
              caption |-> event_data.caption,
              confidence |-> event_data.confidence,
              embedding |->
                  IF ek \in DOMAIN cache /\ cache[ek].value # <<>>
                  THEN cache[ek].value ELSE <<>>]

\* SCAN over "meta:{camera_id}:*" (camera_id "" = no filter: "meta:*");
\* the result is a set, SCAN returns keys in no particular order
get_keys_near_expiry(cache, camera_id, threshold_seconds) ==
    LET threshold == IF threshold_seconds = 0
                     THEN REDIS_MIGRATION_THRESHOLD ELSE threshold_seconds
        keys == {k \in DOMAIN cache :
                    k[1] = "meta" /\ (camera_id = "" \/ k[2] = camera_id)}
        near == {k \in keys :
                    /\ 0 < cache[k].ttl
                    /\ cache[k].ttl <= threshold
                    /\ get_caption_with_metadata(cache, k[2], k[3]) # Missing}
    IN  {[key |-> k, camera_id |-> k[2], timestamp |-> k[3],
          ttl_remaining |-> cache[k].ttl,
          data |-> get_caption_with_metadata(cache, k[2], k[3])] : k \in near}

\* the caption, embedding and meta keys of every given key
RelatedKeys(keys) ==
    UNION {{CaptionKey(k[2], k[3]), EmbeddingKey(k[2], k[3]), MetaKey(k[2], k[3])} :
           k \in keys}

\* one DEL of all related keys: the cache afterwards, and the number removed
mark_for_deletion(cache, keys) ==
    LET all_keys == RelatedKeys(keys)
    IN  [cache |-> [k \in DOMAIN cache \ all_keys |-> cache[k]],
         deleted |-> Cardinality(all_keys \cap DOMAIN cache)]

\* SCAN and DEL over "caption:{camera_id}:*", "embedding:{camera_id}:*" and
\* "meta:{camera_id}:*": the cache afterwards, and the number removed
clear_camera_cache(cache, camera_id) ==
    LET keys == {k \in DOMAIN cache : k[2] = camera_id}
    IN  [cache |-> [k \in DOMAIN cache \ keys |-> cache[k]],
         deleted |-> Cardinality(keys)]

\* d seconds pass: every TTL shrinks and the keys that reach 0 are gone
Expire(cache, d) ==
    [k \in {x \in DOMAIN cache : cache[x].ttl > d} |->
        [cache[k] EXCEPT !.ttl = cache[k].ttl - d]]

(***************************************************************************)
(* RedisClient: the keys as the strings they are                           *)
(***************************************************************************)
\* str.find(sep) from position i on: the position, or 0
RECURSIVE Find(_, _, _)
Find(text, sep, i) ==
    IF i > Len(text) THEN 0
    ELSE IF SubSeq(text, i, i) = sep THEN i
    ELSE Find(text, sep, i + 1)

\* text.split(sep) for a one-character separator
RECURSIVE Split(_, _)
Split(text, sep) ==
    LET at == Find(text, sep, 1)
    IN  IF at = 0 THEN <<text>>
        ELSE <<SubSeq(text, 1, at - 1)>>
                 \o Split(SubSeq(text, at + 1, Len(text)), sep)

\* sep.join(parts)
RECURSIVE Join(_, _)
Join(parts, sep) ==
    IF parts = <<>> THEN ""
    ELSE IF Len(parts) = 1 THEN parts[1]
    ELSE parts[1] \o sep \o Join(Tail(parts), sep)

\* parts[2:] of a Python list
From2(parts) == SubSeq(parts, 3, Len(parts))

TwoDigits(n) == IF n < 10 THEN "0" \o ToString(n) ELSE ToString(n)

ThreeDigits(n) == IF n < 100 THEN "0" \o TwoDigits(n) ELSE ToString(n)

\* timestamp.isoformat() of a time in milliseconds, minutes and seconds
\* only: "MM:SS", followed by the fraction when it is not zero
IsoFormat(t) ==
    TwoDigits(t \div 60000) \o ":" \o TwoDigits((t \div 1000) % 60)
        \o (IF t % 1000 = 0 THEN "" ELSE "." \o ThreeDigits(t % 1000))

\* int(text) of a string of digits
RECURSIVE ParseNat(_)
ParseNat(text) ==
    IF Len(text) = 0 THEN 0
    ELSE ParseNat(SubSeq(text, 1, Len(text) - 1)) * 10
             + (CHOOSE d \in 0..9 : ToString(d) = SubSeq(text, Len(text), Len(text)))

\* datetime.fromisoformat(text), in milliseconds
FromIsoFormat(text) ==
    LET fields == Split(text, ":")
        seconds == Split(fields[2], ".")
    IN  ParseNat(fields[1]) * 60000 + ParseNat(seconds[1]) * 1000
            + (IF Len(seconds) > 1 THEN ParseNat(seconds[2]) ELSE 0)

\* f"{facet}:{camera_id}:{timestamp_key}"
FormatKey(facet, camera_id, timestamp_key) ==
    facet \o ":" \o camera_id \o ":" \o timestamp_key

Facets == {"caption", "embedding", "meta"}

\* store_caption_with_metadata on string keys: three SETEX (lines 92-116)
store_caption_with_metadata_text(cache, camera_id, timestamp, content) ==
    LET timestamp_key == IsoFormat(timestamp)
        event_data == [camera_id |-> camera_id, timestamp |-> timestamp_key,
                       caption |-> content.caption,
                       confidence |-> content.confidence,
                       embedding |-> content.embedding]
        written ==
            (FormatKey("caption", camera_id, timestamp_key)
                 :> [value |-> content.caption, ttl |-> REDIS_TTL_2HOUR])
            @@ (FormatKey("embedding", camera_id, timestamp_key)
                 :> [value |-> content.embedding, ttl |-> REDIS_TTL_2HOUR])
            @@ (FormatKey("meta", camera_id, timestamp_key)
                 :> [value |-> event_data, ttl |-> REDIS_TTL_2HOUR])
    IN  written @@ cache

\* the pattern without the separator after the camera id: "meta:{camera_id}*"
ScanPatternOpen(camera_id) ==
    IF camera_id = "" THEN "meta:" ELSE "meta:" \o camera_id

\* pattern = f"meta:{camera_id}:*" if camera_id else "meta:*" (line 189),
\* without the final "*"
ScanPattern(camera_id) ==
    IF camera_id = "" THEN "meta:" ELSE "meta:" \o camera_id \o ":"

\* SCAN MATCH of a pattern that is a literal followed by "*"
GlobMatches(prefix, key) ==
    Len(key) >= Len(prefix) /\ SubSeq(key, 1, Len(prefix)) = prefix

\* get_keys_near_expiry on string keys (lines 189-231): parts = key.split(':'),
\* cam_id = parts[1], timestamp = ':'.join(parts[2:])
get_keys_near_expiry_text(cache, camera_id, threshold) ==
    LET keys == {k \in DOMAIN cache : GlobMatches(ScanPattern(camera_id), k)}
        near == {k \in keys :
                    /\ 0 < cache[k].ttl
                    /\ cache[k].ttl <= threshold
                    /\ Len(Split(k, ":")) >= 3}
    IN  {[key |-> k,
          camera_id |-> Split(k, ":")[2],
          timestamp |-> FromIsoFormat(Join(From2(Split(k, ":")), ":")),
          ttl_remaining |-> cache[k].ttl,
          data |-> cache[k].value] : k \in near}

\* the related keys built from parts[2] alone as the timestamp
AllKeysShort(keys) ==
    UNION {{FormatKey(facet, Split(k, ":")[2], Split(k, ":")[3]) :
               facet \in Facets} :
           k \in {x \in keys : Len(Split(x, ":")) >= 3}}

\* lines 369-382: all_keys
AllKeys(keys) ==
    UNION {{FormatKey(facet, Split(k, ":")[2], Join(From2(Split(k, ":")), ":")) :
               facet \in Facets} :
           k \in {x \in keys : Len(Split(x, ":")) >= 3}}

\* mark_for_deletion on string keys: one DEL, which returns the number of
\* keys it removed
mark_for_deletion_text(cache, keys) ==
    LET all_keys == AllKeys(keys)
    IN  [cache |-> [k \in DOMAIN cache \ all_keys |-> cache[k]],
         deleted |-> Cardinality(all_keys \cap DOMAIN cache)]

(***************************************************************************)
(* MigrationService._store_event_in_neo4j                                  *)
(***************************************************************************)
\* f"evt_{camera_id}_{int(start_time.timestamp())}"
\* the id without the separator between the camera and the second
EventIdUnseparated(camera_id, start_time) ==
    "evt_" \o camera_id \o ToString(start_time \div 1000)

\* f"evt_{camera_id}_{int(start_time.timestamp())}" (line 308); times are in
\* milliseconds
EventId(camera_id, start_time) ==
    "evt_" \o camera_id \o "_" \o ToString(start_time \div 1000)

\* the Event node of the CREATE, with the camera it is CAPTURED by;
\* retention_until is the date retention_days after now, in days
EventNode(camera_id, event_data, now) ==
    [id |-> EventId(camera_id, event_data.start_time),
     camera_id |-> camera_id,
     caption |-> event_data.caption,
     start_time |-> event_data.start_time,
     end_time |-> event_data.end_time,
     duration |-> event_data.end_time - event_data.start_time,
     confidence |-> event_data.confidence,
     frame_count |-> event_data.count,
     retention_until |-> (now \div 86400) + DEFAULT_RETENTION_DAYS]

\* the query returns a row: the camera is matched and the CREATE does not
\* break the uniqueness constraint on Event.id
QueryCreates(cameras, events, unique, node) ==
    /\ node.camera_id \in cameras
    /\ ~(unique /\ \E n \in BagToSet(events) : n.id = node.id)

\* the writer with a query that creates the Event node before it matches the
\* camera
store_event_in_neo4j_unmatched(cameras, events, unique, camera_id, event_data, now) ==
    LET node == EventNode(camera_id, event_data, now)
    IN  IF QueryCreates(cameras, events, unique, node)
        THEN [events |-> events (+) SetToBag({node}), success |-> TRUE]
        ELSE IF node.camera_id \notin cameras
        THEN [events |-> events (+) SetToBag({node}), success |-> FALSE]
        ELSE [events |-> events, success |-> FALSE]

\* the store after the query, and the value returned
store_event_in_neo4j(cameras, events, unique, camera_id, event_data, now) ==
    LET node == EventNode(camera_id, event_data, now)
    IN  IF QueryCreates(cameras, events, unique, node)
        THEN [events |-> events (+) SetToBag({node}), success |-> TRUE]
        ELSE [events |-> events, success |-> FALSE]

(***************************************************************************)
(* MigrationService: run_migration_check and migrate_camera_history        *)
(***************************************************************************)
RunIds == {"run1", "run2"}

IdleRun == [pc |-> "idle"]

\* the frames the producers may caption: cam1 at second 0 and one beat
\* later, showing the same scene or another one, and cam2 at second 0
FrameTimes == {0, BEAT_SCHEDULE}

ContentA == [caption |-> CaptionA, embedding |-> NoEmbedding, confidence |-> 80]
ContentB == [caption |-> CaptionB, embedding |-> NoEmbedding, confidence |-> 90]

FrameContents(camera_id, time) ==
    IF camera_id = "cam1"
    THEN (IF time > 0 THEN {ContentA, ContentB} ELSE {ContentA})
    ELSE (IF time > 0 THEN {} ELSE {ContentA})

\* captions.sort(key=timestamp) of a set of items with distinct timestamps
RECURSIVE SortByTimestamp(_)
SortByTimestamp(items) ==
    IF items = {} THEN <<>>
    ELSE LET first == CHOOSE x \in items :
                          \A y \in items : x.timestamp <= y.timestamp
         IN  <<first>> \o SortByTimestamp(items \ {first})

\* CameraGroup without the split by camera
CameraGroupAll(expiring_keys, camera_id) == expiring_keys

\* _group_by_camera: the items of one camera
CameraGroup(expiring_keys, camera_id) ==
    {item \in expiring_keys : item.camera_id = camera_id}

CameraIds(expiring_keys) == {item.camera_id : item \in expiring_keys}

\* _deduplicate_captions raises KeyError at data["caption"] (lines 169, 191)
DedupRaises(captions_of_camera) ==
    \E item \in captions_of_camera : item.data = Defective

\* _process_camera_captions up to its first await: sort and group
\* (lines 117-137); no event to store leads straight to the clean-up
BeginCamera(run, camera_id, captions_of_camera) ==
    LET captions == SortByTimestamp(captions_of_camera)
        events == deduplicate_captions(captions)
    IN  IF DedupRaises(captions_of_camera)
        THEN [run EXCEPT
                 !.pc = "raised",
                 !.camera_id = camera_id,
                 !.captions = captions,
                 !.grouped_events = <<>>,
                 !.outcomes = <<>>]
        ELSE [run EXCEPT
                 !.pc = IF events = <<>> THEN "delete" ELSE "store",
                 !.camera_id = camera_id,
                 !.captions = captions,
                 !.grouped_events = events,
                 !.outcomes = <<>>]

NewRun(kind, expiring_keys) ==
    [pc |-> "scan", kind |-> kind, started |-> clock, pending |-> expiring_keys,
     camera_id |-> "", captions |-> <<>>, grouped_events |-> <<>>,
     outcomes |-> <<>>,
     stats |-> [cameras_processed |-> Cardinality(CameraIds(expiring_keys)),
                captions_found |-> Cardinality(expiring_keys),
                events_created |-> 0, redis_keys_deleted |-> 0,
                errors |-> 0]]

Returned(kind, stats) == [pc |-> "done", kind |-> kind, stats |-> stats]

\* a new invocation takes the first slot that is free
FreeSlot(r) ==
    /\ runs[r].pc = "idle"
    /\ r = "run1" \/ runs["run1"].pc # "idle"

\* run_migration_check, lines 48-73: the scan, then the first camera
run_migration_check(r) ==
    /\ FreeSlot(r)
    /\ LET expiring_keys ==
               get_keys_near_expiry(redis, "", REDIS_MIGRATION_THRESHOLD)
           run == NewRun("check", expiring_keys)
       IN  IF expiring_keys = {}
           THEN /\ runs' = [runs EXCEPT ![r] = Returned("check", run.stats)]
                /\ beat_ran' = TRUE
           ELSE /\ \E camera_id \in CameraIds(expiring_keys) :
                       runs' = [runs EXCEPT ![r] =
                           BeginCamera(
                               [run EXCEPT !.pending =
                                   expiring_keys \ CameraGroup(expiring_keys, camera_id)],
                               camera_id, CameraGroup(expiring_keys, camera_id))]
                /\ UNCHANGED beat_ran
    /\ UNCHANGED <<config_vars, dedup_vars, time_vars, redis, store_vars,
                   failures, stored, reaped, folded>>

\* migrate_camera_history scanning with the default threshold whatever `force`
migrate_camera_history_unforced(r, camera_id, force) ==
    /\ FreeSlot(r)
    /\ LET expiring_keys ==
               get_keys_near_expiry(redis, camera_id, REDIS_MIGRATION_THRESHOLD)
           run == NewRun("camera", expiring_keys)
       IN  IF expiring_keys = {}
           THEN runs' = [runs EXCEPT ![r] = Returned("camera", run.stats)]
           ELSE runs' = [runs EXCEPT ![r] =
                    BeginCamera([run EXCEPT !.pending = {}],
                                camera_id, expiring_keys)]
    /\ UNCHANGED <<config_vars, dedup_vars, time_vars, redis, store_vars,
                   failures, history_vars>>

\* migrate_camera_history, lines 372-391
migrate_camera_history(r, camera_id, force) ==
    /\ FreeSlot(r)
    /\ LET threshold == IF force THEN REDIS_TTL_2HOUR
                        ELSE REDIS_MIGRATION_THRESHOLD
           expiring_keys == get_keys_near_expiry(redis, camera_id, threshold)
           run == NewRun("camera", expiring_keys)
       IN  IF expiring_keys = {}
           THEN runs' = [runs EXCEPT ![r] = Returned("camera", run.stats)]
           ELSE runs' = [runs EXCEPT ![r] =
                    BeginCamera([run EXCEPT !.pending = {}],
                                camera_id, expiring_keys)]
    /\ UNCHANGED <<config_vars, dedup_vars, time_vars, redis, store_vars,
                   failures, history_vars>>

\* the meta keys of the records folded into a group
GroupKeys(captions, event) ==
    {captions[k].key : k \in {j \in 1..Len(captions) :
        /\ event.start_time <= captions[j].timestamp
        /\ captions[j].timestamp <= event.end_time}}

\* after the store of event number Len(outcomes) + 1 returned `success`
AfterStore(run, success) ==
    [run EXCEPT
        !.outcomes = Append(run.outcomes, success),
        !.stats.events_created =
            run.stats.events_created + (IF success THEN 1 ELSE 0),
        !.pc = IF Len(run.outcomes) + 1 = Len(run.grouped_events)
               THEN "delete" ELSE "store"]

\* _process_camera_captions, lines 138-147: the next _store_event_in_neo4j
\* with a responsive store
StoreEvent(r) ==
    /\ runs[r].pc = "store"
    /\ LET run == runs[r]
           event == run.grouped_events[Len(run.outcomes) + 1]
           res == store_event_in_neo4j(neo4j_cameras, neo4j_events,
                      event_id_constraint, run.camera_id, event, clock)
       IN  /\ neo4j_events' = res.events
           /\ runs' = [runs EXCEPT ![r] = AfterStore(run, res.success)]
           /\ folded' = IF res.success
                        THEN folded (+) SetToBag(GroupKeys(run.captions, event))
                        ELSE folded
    /\ UNCHANGED <<config_vars, dedup_vars, time_vars, redis, neo4j_cameras,
                   event_id_constraint, failures, beat_ran, stored, reaped>>

\* the same call when the query raises (store unreachable): lines 358-362
StoreEventRaises(r) ==
    /\ runs[r].pc = "store"
    /\ failures < MaxFailures
    /\ failures' = failures + 1
    /\ runs' = [runs EXCEPT ![r] = AfterStore(runs[r], FALSE)]
    /\ UNCHANGED <<config_vars, dedup_vars, time_vars, redis, store_vars,
                   history_vars>>

\* what became of a record of the current camera in this run: its group
\* was dropped by the save filter, written, not written, or is still to store
Fate(run, item) ==
    LET idx == {k \in 1..Len(run.grouped_events) :
                   item.key \in GroupKeys(run.captions, run.grouped_events[k])}
    IN  IF idx = {} THEN "dropped"
        ELSE IF \E k \in idx : k > Len(run.outcomes) THEN "pending"
        ELSE IF \E k \in idx : run.outcomes[k] THEN "written" ELSE "failed"

\* after the clean-up of a camera: the next camera of a periodic check
\* (lines 66-73, in dictionary order, which the scan order decides), or the
\* return of the statistics (lines 88-89, 397-405)
NextRuns(run, deleted) ==
    LET counted == [run EXCEPT
                       !.stats.redis_keys_deleted =
                           run.stats.redis_keys_deleted + deleted]
    IN  IF counted.pending = {}
        THEN {Returned(run.kind, counted.stats)}
        ELSE {BeginCamera(
                  [counted EXCEPT !.pending =
                      counted.pending \ CameraGroup(counted.pending, c)],
                  c, CameraGroup(counted.pending, c)) :
              c \in CameraIds(counted.pending)}

\* a periodic check that scanned in the current beat interval returns
BeatReturns(run, next) ==
    next.pc = "done" /\ next.kind = "check" /\ run.started = clock

\* lines 77-80 and 393-395: mark_for_deletion of every key of the camera
DeleteKeys(r) ==
    /\ runs[r].pc = "delete"
    /\ LET run == runs[r]
           keys_to_delete == {run.captions[k].key : k \in 1..Len(run.captions)}
           res == mark_for_deletion(redis, keys_to_delete)
       IN  /\ redis' = res.cache
           /\ reaped' = reaped \cup
                  {<<run.captions[k].key, Fate(run, run.captions[k])>> :
                      k \in {j \in 1..Len(run.captions) :
                                run.captions[j].key \in DOMAIN redis}}
           /\ \E next \in NextRuns(run, res.deleted) :
                  /\ runs' = [runs EXCEPT ![r] = next]
                  /\ beat_ran' = (beat_ran \/ BeatReturns(run, next))
    /\ UNCHANGED <<config_vars, dedup_vars, time_vars, store_vars,
                   failures, stored, folded>>

\* the same call when Redis raises: mark_for_deletion returns 0 (lines 390-392)
DeleteKeysRaises(r) ==
    /\ runs[r].pc = "delete"
    /\ failures < MaxFailures
    /\ failures' = failures + 1
    /\ \E next \in NextRuns(runs[r], 0) :
           /\ runs' = [runs EXCEPT ![r] = next]
           /\ beat_ran' = (beat_ran \/ BeatReturns(runs[r], next))
    /\ UNCHANGED <<config_vars, dedup_vars, time_vars, redis, store_vars,
                   stored, reaped, folded>>

\* CameraRaised without the try around one camera: the exception reaches the
\* handler of the whole check (lines 91-94)
CameraRaisedAborts(r) ==
    /\ runs[r].pc = "raised"
    /\ LET run == runs[r]
           counted == [run EXCEPT !.stats.errors = run.stats.errors + 1]
       IN  IF run.kind = "check"
           THEN /\ runs' = [runs EXCEPT ![r] = Returned("check", counted.stats)]
                /\ beat_ran' = (beat_ran \/ run.started = clock)
           ELSE /\ runs' = [runs EXCEPT ![r] =
                               Returned("camera", [error |-> TRUE])]
                /\ UNCHANGED beat_ran
    /\ UNCHANGED <<config_vars, dedup_vars, time_vars, redis, store_vars,
                   failures, stored, reaped, folded>>

\* _process_camera_captions has raised. In run_migration_check the handler of
\* the camera counts an error and the loop goes on to the next camera (lines
\* 84-86); migrate_camera_history returns {"error": ...} (lines 407-411)
CameraRaised(r) ==
    /\ runs[r].pc = "raised"
    /\ LET run == runs[r]
           counted == [run EXCEPT !.stats.errors = run.stats.errors + 1]
       IN  IF run.kind = "check"
           THEN \E next \in NextRuns(counted, 0) :
                    /\ runs' = [runs EXCEPT ![r] = next]
                    /\ beat_ran' = (beat_ran \/ BeatReturns(run, next))
           ELSE /\ runs' = [runs EXCEPT ![r] =
                               Returned("camera", [error |-> TRUE])]
                /\ UNCHANGED beat_ran
    /\ UNCHANGED <<config_vars, dedup_vars, time_vars, redis, store_vars,
                   failures, stored, reaped, folded>>

\* the invocation has returned its statistics
Return(r) ==
    /\ runs[r].pc = "done"
    /\ runs' = [runs EXCEPT ![r] = IdleRun]
    /\ UNCHANGED <<config_vars, dedup_vars, time_vars, redis, store_vars,
                   failures, history_vars>>

(***************************************************************************)
(* Producers and time                                                      *)
(***************************************************************************)
\* StreamManager stores the caption of the frame taken now (stream_manager.py)
StoreCaption(camera_id, content) ==
    /\ clock \in FrameTimes
    /\ MetaKey(camera_id, clock * 1000) \notin stored
    /\ redis' = store_caption_with_metadata(redis, camera_id, clock * 1000,
                    content.caption, content.embedding, content.confidence)
    /\ stored' = stored \cup {MetaKey(camera_id, clock * 1000)}
    /\ UNCHANGED <<config_vars, dedup_vars, time_vars, store_vars, runs,
                   failures, beat_ran, reaped, folded>>

Pass(d) ==
    /\ clock' = clock + d
    /\ redis' = Expire(redis, d)
    /\ beat_ran' = FALSE
    /\ UNCHANGED <<config_vars, dedup_vars, store_vars, runs, failures,
                   stored, reaped, folded>>

MinTtl == CHOOSE t \in {redis[k].ttl : k \in DOMAIN redis} :
              \A k \in DOMAIN redis : t <= redis[k].ttl

\* one beat interval passes, while frames are still to come or some entry
\* is near expiry
Tick ==
    /\ ticks < MaxTicks
    /\ \/ \E t \in FrameTimes : clock < t
       \/ DOMAIN redis # {} /\ MinTtl <= REDIS_MIGRATION_THRESHOLD
    /\ ticks' = ticks + 1
    /\ Pass(BEAT_SCHEDULE)

\* one beat interval passes, the periodic check of the interval having run
TickAfterBeat ==
    /\ beat_ran
    /\ Tick

\* every frame has come and nothing is near expiry: time passes until the
\* oldest entry is
Sleep ==
    /\ \A t \in FrameTimes : clock >= t
    /\ DOMAIN redis # {}
    /\ MinTtl > REDIS_MIGRATION_THRESHOLD
    /\ UNCHANGED ticks
    /\ Pass(MinTtl - REDIS_MIGRATION_THRESHOLD)

SysQuiet ==
    /\ clock = 0
    /\ ticks = 0
    /\ redis = <<>>
    /\ neo4j_cameras = Cameras
    /\ neo4j_events = EmptyBag
    /\ event_id_constraint = TRUE
    /\ runs = [r \in RunIds |-> IdleRun]
    /\ failures = 0
    /\ beat_ran = FALSE
    /\ stored = {}
    /\ reaped = {}
    /\ folded = EmptyBag

PersistQuiet ==
    /\ p_camera = ""
    /\ p_event = NoGroup
    /\ p_results = <<>>

SimilarQuiet ==
    /\ s_a = [caption |-> <<>>, embedding |-> <<>>]
    /\ s_b = [caption |-> <<>>, embedding |-> <<>>]
    /\ s_calls = <<>>

NoPreview == [status |-> "none"]
NoScan == [called |-> FALSE]

NoCursorScan == [pc |-> "idle"]
NoRequest == [status |-> "none"]

ReadQuiet ==
    /\ preview_response = NoPreview
    /\ scan_result = NoScan
    /\ cursor_scan = NoCursorScan
    /\ api_request = NoRequest

DedupQuiet ==
    /\ d_scanned = {}
    /\ d_members = {}
    /\ d_closed = <<>>
    /\ d_pc = "idle"
    /\ d_captions = <<>>
    /\ d_i = 0
    /\ current_group = NoGroup
    /\ grouped_events = <<>>
    /\ PersistQuiet
    /\ SimilarQuiet
    /\ ReadQuiet

Init ==
    /\ min_duration = MIN_CAPTION_DURATION
    /\ max_duration = MAX_CAPTION_DURATION
    /\ DedupQuiet
    /\ clock = 0
    /\ ticks = 0
    /\ redis = <<>>
    /\ neo4j_cameras = Cameras
    /\ neo4j_events = EmptyBag
    /\ event_id_constraint \in BOOLEAN
    /\ runs = [r \in RunIds |-> IdleRun]
    /\ failures = 0
    /\ beat_ran = FALSE
    /\ stored = {}
    /\ reaped = {}
    /\ folded = EmptyBag

Migration ==
    \E r \in RunIds :
        \/ run_migration_check(r)
        \/ \E camera_id \in Cameras, force \in BOOLEAN :
               migrate_camera_history(r, camera_id, force)
        \/ StoreEvent(r)
        \/ DeleteKeys(r)
        \/ Return(r)

Failure ==
    \E r \in RunIds : StoreEventRaises(r) \/ DeleteKeysRaises(r)

Producer ==
    \E camera_id \in Cameras :
        \E content \in FrameContents(camera_id, clock) :
            StoreCaption(camera_id, content)

Next == Migration \/ Failure \/ Producer \/ Tick \/ Sleep

Spec == Init /\ [][Next]_vars

\* every beat interval sees its periodic check return, and no call fails
NextBeat == Migration \/ Producer \/ TickAfterBeat \/ Sleep

SpecBeat == Init /\ [][NextBeat]_vars

(***************************************************************************)
(* The grouping pass, one statement at a time                              *)
(***************************************************************************)
DedupItem(cam, ts, cap, emb, conf) ==
    [key |-> <<"meta", cam, ts>>, camera_id |-> cam, timestamp |-> ts,
     data |-> [camera_id |-> cam, timestamp |-> ts, caption |-> cap,
               confidence |-> conf, embedding |-> emb]]

DedupItems ==
    {DedupItem("cam1", ts, c.caption, c.embedding, c.confidence) :
        ts \in DedupTimestamps, c \in DedupContents}

\* non-empty lists of items in strictly ascending timestamp order
SortedInputs ==
    UNION {{s \in [1..n -> DedupItems] :
               \A k \in 1..(n - 1) : s[k].timestamp < s[k + 1].timestamp} :
           n \in 1..MaxLen}

\* what the scan of a periodic run returns besides cam1's records
OtherCameraItems ==
    {{}, {DedupItem("cam2", 30000, CaptionA, NoEmbedding, 80)}}

DedupScans ==
    {SeqToSet(s) \cup other : s \in SortedInputs, other \in OtherCameraItems}

\* the records of the grouping example: one camera, captions at the seconds
\* 0, 60, 120, 400 and 460, no embeddings
EmptyRoom == <<"e", "m", "p", "t", "y", " ", "r", "o", "o", "m">>
PersonEnters ==
    <<"p", "e", "r", "s", "o", "n", " ", "e", "n", "t", "e", "r", "s">>

ExampleScan ==
    {DedupItem("cam1", 0, EmptyRoom, NoEmbedding, 80),
     DedupItem("cam1", 60000, EmptyRoom, NoEmbedding, 80),
     DedupItem("cam1", 120000, EmptyRoom, NoEmbedding, 80),
     DedupItem("cam1", 400000, PersonEnters, NoEmbedding, 90),
     DedupItem("cam1", 460000, PersonEnters, NoEmbedding, 90)}

ExampleMinDuration == 30

\* records of one camera less than a second apart: two frames of one scene
\* at 0.0 s and 0.4 s, then two frames of another scene at 0.8 s and 60.8 s
SameSecondScan ==
    {DedupItem("cam1", 0, CaptionA, NoEmbedding, 80),
     DedupItem("cam1", 400, CaptionA, NoEmbedding, 80),
     DedupItem("cam1", 800, CaptionB, NoEmbedding, 90),
     DedupItem("cam1", 60800, CaptionB, NoEmbedding, 90)}

DedupInit ==
    /\ \/ min_duration \in DedupMinDurations /\ d_scanned \in DedupScans
       \/ min_duration = ExampleMinDuration /\ d_scanned = ExampleScan
       \/ min_duration = MIN_CAPTION_DURATION /\ d_scanned = SameSecondScan
    /\ max_duration = MAX_CAPTION_DURATION
    /\ d_pc = "idle"
    /\ d_captions = <<>>
    /\ d_i = 0
    /\ current_group = NoGroup
    /\ grouped_events = <<>>
    /\ d_members = {}
    /\ d_closed = <<>>
    /\ PersistQuiet
    /\ SimilarQuiet
    /\ ReadQuiet
    /\ SysQuiet

\* a group that the pass has finished, with the positions of its items
ClosedGroup(group, members) == [group |-> group, members |-> members]

\* _group_by_camera and the head of _process_camera_captions (lines 96-128):
\* the items of one camera, sorted by timestamp, enter the pass (lines 161-177)
DedupStart ==
    /\ d_pc = "idle"
    /\ d_captions = <<>>
    /\ \E camera_id \in CameraIds(d_scanned) :
           d_captions' = SortByTimestamp(CameraGroup(d_scanned, camera_id))
    /\ d_pc' = "loop"
    /\ current_group' = NewGroup(d_captions'[1])
    /\ grouped_events' = <<>>
    /\ d_i' = 2
    /\ d_members' = {1}
    /\ UNCHANGED <<d_scanned, d_closed, config_vars, persist_vars, similar_vars,
                   read_vars, sys_vars>>

DedupIterate ==
    /\ d_pc = "loop"
    /\ d_i <= Len(d_captions)
    /\ LET st == LoopBody(current_group, grouped_events, d_captions[d_i])
       IN  /\ current_group' = st.current_group
           /\ grouped_events' = st.grouped_events
    /\ IF ShouldExtend(current_group, d_captions[d_i])
       THEN /\ d_members' = d_members \cup {d_i}
            /\ UNCHANGED d_closed
       ELSE /\ d_members' = {d_i}
            /\ d_closed' = Append(d_closed, ClosedGroup(current_group, d_members))
    /\ d_i' = d_i + 1
    /\ UNCHANGED <<d_scanned, d_pc, d_captions, config_vars, persist_vars, similar_vars,
                   read_vars, sys_vars>>

DedupReturn ==
    /\ d_pc = "loop"
    /\ d_i > Len(d_captions)
    /\ grouped_events' = FinalFlush(current_group, grouped_events)
    /\ d_closed' = Append(d_closed, ClosedGroup(current_group, d_members))
    /\ d_pc' = "done"
    /\ UNCHANGED <<d_scanned, d_captions, d_i, current_group, d_members, config_vars,
                   persist_vars, similar_vars,
                   read_vars, sys_vars>>

DedupNext == DedupStart \/ DedupIterate \/ DedupReturn

SpecDedup == DedupInit /\ [][DedupNext]_vars

(***************************************************************************)
(* _store_event_in_neo4j called again with the same arguments              *)
(***************************************************************************)
\* the events a grouping pass can hand to the writer
PersistEvents == UNION {SeqToSet(deduplicate_captions(s)) : s \in SortedInputs}

PersistInit ==
    /\ min_duration = MIN_CAPTION_DURATION
    /\ max_duration = MAX_CAPTION_DURATION
    /\ d_scanned = {}
    /\ d_members = {}
    /\ d_closed = <<>>
    /\ d_pc = "idle"
    /\ d_captions = <<>>
    /\ d_i = 0
    /\ current_group = NoGroup
    /\ grouped_events = <<>>
    /\ p_camera \in Cameras
    /\ p_event \in PersistEvents
    /\ p_results = <<>>
    /\ SimilarQuiet
    /\ ReadQuiet
    /\ clock = 0
    /\ ticks = 0
    /\ redis = <<>>
    /\ neo4j_cameras \in {Cameras, {"cam1"}}
    /\ neo4j_events = EmptyBag
    /\ event_id_constraint \in BOOLEAN
    /\ runs = [r \in RunIds |-> IdleRun]
    /\ failures = 0
    /\ beat_ran = FALSE
    /\ stored = {}
    /\ reaped = {}
    /\ folded = EmptyBag

Persist ==
    /\ Len(p_results) < 2
    /\ LET res == store_event_in_neo4j(neo4j_cameras, neo4j_events,
                      event_id_constraint, p_camera, p_event, clock)
       IN  /\ neo4j_events' = res.events
           /\ p_results' = Append(p_results, res.success)
    /\ UNCHANGED <<config_vars, d_scanned, d_pc, d_captions, d_i, current_group,
                   grouped_events, d_members, d_closed, p_camera, p_event, time_vars,
                   redis,
                   neo4j_cameras, event_id_constraint, runs, failures,
                   history_vars, similar_vars, read_vars>>

SpecPersist == PersistInit /\ [][Persist]_vars

\* the call when async_execute_query raises (connection refused, session.run
\* rejected): the auto-commit transaction is not committed, and lines 358-362
\* turn the exception into False
PersistRaises ==
    /\ Len(p_results) < 2
    /\ failures < MaxFailures
    /\ failures' = failures + 1
    /\ p_results' = Append(p_results, FALSE)
    /\ UNCHANGED <<config_vars, d_scanned, d_pc, d_captions, d_i, current_group,
                   grouped_events, d_members, d_closed, p_camera, p_event, time_vars,
                   redis, store_vars, runs,
                   history_vars, similar_vars, read_vars>>

WriterNext == Persist \/ PersistRaises

SpecWriter == PersistInit /\ [][WriterNext]_vars

(***************************************************************************)
(* _store_event_in_neo4j called for several cameras and start times        *)
(***************************************************************************)
\* camera ids that share a prefix, one of them with the separator of the id
IdCameras == {"c", "c1", "c_1"}

\* start times in milliseconds: two in second 0, and seconds 1 and 11
IdTimes == {0, 400, 1000, 11000}

\* a group of two frames that starts at start_time
EventAt(start_time) ==
    [caption |-> CaptionA, embedding |-> NoEmbedding, confidence |-> <<160, 2>>,
     count |-> 2, start_time |-> start_time, end_time |-> start_time + 60000]

EventIdInit ==
    /\ min_duration = MIN_CAPTION_DURATION
    /\ max_duration = MAX_CAPTION_DURATION
    /\ d_scanned = {}
    /\ d_members = {}
    /\ d_closed = <<>>
    /\ d_pc = "idle"
    /\ d_captions = <<>>
    /\ d_i = 0
    /\ current_group = NoGroup
    /\ grouped_events = <<>>
    /\ p_camera = ""
    /\ p_event = NoGroup
    /\ p_results = <<>>
    /\ SimilarQuiet
    /\ ReadQuiet
    /\ clock = 0
    /\ ticks = 0
    /\ redis = <<>>
    /\ neo4j_cameras = IdCameras
    /\ neo4j_events = EmptyBag
    /\ event_id_constraint \in BOOLEAN
    /\ runs = [r \in RunIds |-> IdleRun]
    /\ failures = 0
    /\ beat_ran = FALSE
    /\ stored = {}
    /\ reaped = {}
    /\ folded = EmptyBag

\* one call of _store_event_in_neo4j; p_results keeps the calls made
PersistCall(camera_id, start_time) ==
    /\ Len(p_results) < MaxCalls
    /\ LET res == store_event_in_neo4j(neo4j_cameras, neo4j_events,
                      event_id_constraint, camera_id, EventAt(start_time), clock)
       IN  /\ neo4j_events' = res.events
           /\ p_results' = Append(p_results,
                  [camera_id |-> camera_id, start_time |-> start_time,
                   success |-> res.success])
    /\ p_camera' = camera_id
    /\ p_event' = EventAt(start_time)
    /\ UNCHANGED <<config_vars, d_scanned, d_pc, d_captions, d_i, current_group,
                   grouped_events, d_members, d_closed, time_vars,
                   redis, neo4j_cameras, event_id_constraint, runs, failures,
                   history_vars, similar_vars, read_vars>>

\* a day passes between two calls
PersistLater ==
    /\ ticks < MaxTicks
    /\ ticks' = ticks + 1
    /\ clock' = clock + 86400
    /\ UNCHANGED <<config_vars, dedup_vars, redis, store_vars, runs, failures,
                   history_vars>>

EventIdNext ==
    \/ \E camera_id \in IdCameras, start_time \in IdTimes :
           PersistCall(camera_id, start_time)
    \/ PersistLater

SpecEventId == EventIdInit /\ [][EventIdNext]_vars

(***************************************************************************)
(* Migration of cameras whose ids share a prefix, on string keys           *)
(***************************************************************************)
\* the frames captioned: at 00:00 and at 01:00.400
KeyTimes == {0, 60400}

\* the cache after the producer stored the given <<camera, time>> frames
RECURSIVE StoredFrames(_)
StoredFrames(frames) ==
    IF frames = {} THEN <<>>
    ELSE LET f == CHOOSE x \in frames : TRUE
         IN  store_caption_with_metadata_text(StoredFrames(frames \ {f}),
                                              f[1], f[2], ContentA)

KeysInit ==
    /\ DedupQuiet
    /\ min_duration = MIN_CAPTION_DURATION
    /\ max_duration = MAX_CAPTION_DURATION
    /\ clock = 0
    /\ ticks = 0
    /\ stored \in SUBSET (IdCameras \X KeyTimes)
    /\ redis = Expire(StoredFrames(stored), REDIS_TTL_2HOUR - 200)
    /\ neo4j_cameras = IdCameras
    /\ neo4j_events = EmptyBag
    /\ event_id_constraint = TRUE
    /\ runs = [r \in RunIds |-> IdleRun]
    /\ failures = 0
    /\ beat_ran = FALSE
    /\ reaped = {}
    /\ folded = EmptyBag

\* _process_camera_captions, lines 138-147: every event handed to the writer
RECURSIVE StoreEvents(_, _, _, _, _, _)
StoreEvents(cameras, events, unique, camera_id, todo, now) ==
    IF todo = <<>> THEN events
    ELSE StoreEvents(cameras,
             store_event_in_neo4j(cameras, events, unique, camera_id,
                                  Head(todo), now).events,
             unique, camera_id, Tail(todo), now)

\* the invocation after sorting, grouping and writing the records scanned
\* for one camera, with the keys it is about to hand to mark_for_deletion
KeysProcessed(kind, camera_id, captions_of_camera) ==
    [pc |-> "reap", kind |-> kind, camera_id |-> camera_id,
     keys |-> {item.key : item \in captions_of_camera}]

KeysStored(camera_id, captions_of_camera) ==
    StoreEvents(neo4j_cameras, neo4j_events, event_id_constraint, camera_id,
                deduplicate_captions(SortByTimestamp(captions_of_camera)), clock)

\* migrate_camera_history(camera_id, force=True), lines 372-391
KeysMigrate(r, camera_id) ==
    /\ runs[r].pc = "idle"
    /\ LET expiring_keys ==
               get_keys_near_expiry_text(redis, camera_id, REDIS_TTL_2HOUR)
       IN  /\ expiring_keys # {}
           /\ neo4j_events' = KeysStored(camera_id, expiring_keys)
           /\ runs' = [runs EXCEPT ![r] =
                           KeysProcessed("camera", camera_id, expiring_keys)]
    /\ UNCHANGED <<config_vars, dedup_vars, time_vars, redis, neo4j_cameras,
                   event_id_constraint, failures, history_vars>>

\* run_migration_check, lines 47-78, for one camera of camera_keys
KeysCheckSlice(r, camera_id) ==
    /\ runs[r].pc = "idle"
    /\ LET expiring_keys ==
               get_keys_near_expiry_text(redis, "", REDIS_MIGRATION_THRESHOLD)
           captions_of_camera == CameraGroup(expiring_keys, camera_id)
       IN  /\ captions_of_camera # {}
           /\ neo4j_events' = KeysStored(camera_id, captions_of_camera)
           /\ runs' = [runs EXCEPT ![r] =
                           KeysProcessed("check", camera_id, captions_of_camera)]
    /\ UNCHANGED <<config_vars, dedup_vars, time_vars, redis, neo4j_cameras,
                   event_id_constraint, failures, history_vars>>

\* mark_for_deletion(keys_to_delete), lines 361-388
KeysReap(r) ==
    /\ runs[r].pc = "reap"
    /\ LET res == mark_for_deletion_text(redis, runs[r].keys)
       IN  /\ redis' = res.cache
           /\ runs' = [runs EXCEPT ![r] =
                  [pc |-> "done", kind |-> runs[r].kind,
                   camera_id |-> runs[r].camera_id,
                   keys |-> runs[r].keys, deleted |-> res.deleted,
                   raised |-> FALSE]]
    /\ UNCHANGED <<config_vars, dedup_vars, time_vars, store_vars, failures,
                   history_vars>>

\* mark_for_deletion when the DEL raises, lines 390-392
KeysReapRaises(r) ==
    /\ runs[r].pc = "reap"
    /\ failures < MaxFailures
    /\ failures' = failures + 1
    /\ runs' = [runs EXCEPT ![r] =
           [pc |-> "done", kind |-> runs[r].kind,
            camera_id |-> runs[r].camera_id,
            keys |-> runs[r].keys, deleted |-> 0, raised |-> TRUE]]
    /\ UNCHANGED <<config_vars, dedup_vars, time_vars, redis, store_vars,
                   history_vars>>

KeysNext ==
    \/ \E r \in RunIds, camera_id \in IdCameras : KeysMigrate(r, camera_id)
    \/ \E r \in RunIds, camera_id \in IdCameras : KeysCheckSlice(r, camera_id)
    \/ \E r \in RunIds : KeysReap(r)
    \/ \E r \in RunIds : KeysReapRaises(r)

SpecKeys == KeysInit /\ [][KeysNext]_vars

(***************************************************************************)
(* _are_captions_similar called on a pair of records, in both orders       *)
(***************************************************************************)
FiveWords == <<"a", " ", "b", " ", "c", " ", "d", " ", "e">>
FiveWordsOther == <<"a", " ", "b", " ", "c", " ", "d", " ", "f">>
FourWords == <<"a", " ", "b", " ", "c", " ", "d">>
FourWordsOther == <<"a", " ", "b", " ", "c", " ", "e">>
Blank == <<" ">>

SimilarCaptions ==
    {<<>>, Blank, CaptionA, CaptionAUpper, CaptionB,
     FiveWords, FiveWordsOther, FourWords, FourWordsOther}

\* no embedding, three directions in the plane, the zero vector, and two
\* embeddings of other dimensions
SimilarEmbeddings ==
    {NoEmbedding, <<1, 0>>, <<4, 1>>, <<2, 1>>, <<0, 0>>, <<1>>, <<4, 1, 0>>}

SimilarRecords ==
    {[caption |-> c, embedding |-> e] :
        c \in SimilarCaptions, e \in SimilarEmbeddings}

SimilarInit ==
    /\ min_duration = MIN_CAPTION_DURATION
    /\ max_duration = MAX_CAPTION_DURATION
    /\ d_scanned = {}
    /\ d_pc = "idle"
    /\ d_captions = <<>>
    /\ d_i = 0
    /\ current_group = NoGroup
    /\ grouped_events = <<>>
    /\ d_members = {}
    /\ d_closed = <<>>
    /\ PersistQuiet
    /\ s_a \in SimilarRecords
    /\ s_b \in SimilarRecords
    /\ s_calls = <<>>
    /\ ReadQuiet
    /\ SysQuiet

\* one call and the value it returns
SimilarCall(first, second) ==
    [caption1 |-> first.caption, caption2 |-> second.caption,
     embedding1 |-> first.embedding, embedding2 |-> second.embedding,
     result |-> are_captions_similar(first.caption, second.caption,
                                     first.embedding, second.embedding)]

\* _are_captions_similar(a, b)
CompareAB ==
    /\ s_calls = <<>>
    /\ s_calls' = <<SimilarCall(s_a, s_b)>>
    /\ UNCHANGED <<config_vars, d_scanned, d_pc, d_captions, d_i, current_group,
                   grouped_events, d_members, d_closed, persist_vars, s_a, s_b,
                   read_vars, sys_vars>>

\* then _are_captions_similar(b, a)
CompareBA ==
    /\ Len(s_calls) = 1
    /\ s_calls' = Append(s_calls, SimilarCall(s_b, s_a))
    /\ UNCHANGED <<config_vars, d_scanned, d_pc, d_captions, d_i, current_group,
                   grouped_events, d_members, d_closed, persist_vars, s_a, s_b,
                   read_vars, sys_vars>>

SimilarNext == CompareAB \/ CompareBA

SpecSimilar == SimilarInit /\ [][SimilarNext]_vars

(***************************************************************************)
(* Preview, scan and runs on a given cache content                         *)
(***************************************************************************)
\* threshold_seconds of the preview endpoint (migration.py)
PREVIEW_THRESHOLD == 7200

\* one record of the cache: the three keys a producer wrote, ttl seconds
\* before their expiry; a malformed record holds a meta value that does not
\* parse
CacheRecord(cache, camera_id, timestamp, content, ttl, malformed) ==
    LET fresh == store_caption_with_metadata(<<>>, camera_id, timestamp,
                     content.caption, content.embedding, content.confidence)
        aged == Expire(fresh, REDIS_TTL_2HOUR - ttl)
        meta == MetaKey(camera_id, timestamp)
    IN  (IF malformed
         THEN [aged EXCEPT ![meta] = [value |-> Malformed, ttl |-> ttl]]
         ELSE aged) @@ cache

\* the caches a camera's first frame, its second frame and the other
\* camera's frame can leave behind
FirstFrameCaches ==
    {<<>>} \cup {CacheRecord(<<>>, "cam1", 0, ContentA, ttl, malformed) :
                    ttl \in {200, REDIS_TTL_2HOUR}, malformed \in BOOLEAN}

SecondFrameCaches ==
    {<<>>} \cup {CacheRecord(<<>>, "cam1", 60000, content, ttl, FALSE) :
                    content \in {ContentA, ContentB}, ttl \in {300, 301}}

OtherCameraCaches ==
    {<<>>} \cup {CacheRecord(<<>>, "cam2", 0, ContentA, 300, malformed) :
                    malformed \in BOOLEAN}

\* the five records of the grouping example, all of them fresh
RECURSIVE CacheOf(_)
CacheOf(items) ==
    IF items = {} THEN <<>>
    ELSE LET item == CHOOSE x \in items : TRUE
         IN  CacheRecord(CacheOf(items \ {item}), item.camera_id, item.timestamp,
                         item.data, REDIS_TTL_2HOUR, FALSE)

CacheContents ==
    {a @@ b @@ c : a \in FirstFrameCaches, b \in SecondFrameCaches,
                   c \in OtherCameraCaches}
    \cup {CacheOf(ExampleScan)}

CacheInit ==
    /\ min_duration = MIN_CAPTION_DURATION
    /\ max_duration = MAX_CAPTION_DURATION
    /\ DedupQuiet
    /\ clock = 0
    /\ ticks = 0
    /\ redis \in CacheContents
    /\ neo4j_cameras = Cameras
    /\ neo4j_events = EmptyBag
    /\ event_id_constraint \in BOOLEAN
    /\ runs = [r \in RunIds |-> IdleRun]
    /\ failures = 0
    /\ beat_ran = FALSE
    /\ stored = {k \in DOMAIN redis : k[1] = "meta"}
    /\ reaped = {}
    /\ folded = EmptyBag

\* Reduction computed from the events kept instead of the records saved
ReductionOfKept(original_count, deduplicated_count) ==
    (2000 * deduplicated_count + original_count) \div (2 * original_count)

\* f"{savings_percent:.1f}": the percentage in tenths of a percent, rounded
\* to the nearest tenth
Reduction(original_count, deduplicated_count) ==
    (2000 * (original_count - deduplicated_count) + original_count)
        \div (2 * original_count)

\* the response of the preview endpoint for what the scan returned; `seen`
\* is the cache the preview read
PreviewOf(camera_id, expiring_keys, cache) ==
    IF expiring_keys = {}
    THEN [status |-> "no_data", camera_id |-> camera_id, captions_found |-> 0,
          seen |-> cache]
    ELSE LET grouped == deduplicate_captions(SortByTimestamp(expiring_keys))
         IN  [status |-> "preview", camera_id |-> camera_id,
              original_captions |-> Cardinality(expiring_keys),
              deduplicated_events |-> Len(grouped),
              reduction |-> Reduction(Cardinality(expiring_keys), Len(grouped)),
              seen |-> cache]

NoRunInFlight == \A r \in RunIds : runs[r].pc = "idle"

\* preview_camera_migration followed by a deletion of the keys it has read
preview_camera_migration_reaping(camera_id) ==
    /\ NoRunInFlight
    /\ preview_response = NoPreview
    /\ LET expiring_keys == get_keys_near_expiry(redis, camera_id, PREVIEW_THRESHOLD)
       IN  /\ preview_response' = PreviewOf(camera_id, expiring_keys, redis)
           /\ redis' = mark_for_deletion(redis, {k.key : k \in expiring_keys}).cache
    /\ UNCHANGED <<config_vars, d_scanned, d_pc, d_captions, d_i, current_group,
                   grouped_events, d_members, d_closed, persist_vars,
                   similar_vars, scan_result, cursor_scan, api_request, time_vars,
                   store_vars, runs,
                   failures, history_vars>>

\* GET /camera/{camera_id}/preview (migration.py, lines 167-242)
preview_camera_migration(camera_id) ==
    /\ NoRunInFlight
    /\ preview_response = NoPreview
    /\ LET expiring_keys == get_keys_near_expiry(redis, camera_id, PREVIEW_THRESHOLD)
       IN  preview_response' = PreviewOf(camera_id, expiring_keys, redis)
    /\ UNCHANGED <<config_vars, d_scanned, d_pc, d_captions, d_i, current_group,
                   grouped_events, d_members, d_closed, persist_vars,
                   similar_vars, scan_result, cursor_scan, api_request, sys_vars>>

\* the thresholds a caller passes to the scan
ScanThresholds == {0, 200, REDIS_MIGRATION_THRESHOLD, PREVIEW_THRESHOLD}

\* one call of get_keys_near_expiry(camera_id, threshold_seconds)
Scan(camera_id, threshold_seconds) ==
    /\ NoRunInFlight
    /\ preview_response = NoPreview
    /\ scan_result = NoScan
    /\ scan_result' =
           [called |-> TRUE, camera_id |-> camera_id,
            threshold_seconds |-> threshold_seconds,
            keys |-> get_keys_near_expiry(redis, camera_id, threshold_seconds)]
    /\ UNCHANGED <<config_vars, d_scanned, d_pc, d_captions, d_i, current_group,
                   grouped_events, d_members, d_closed, persist_vars,
                   similar_vars, preview_response, cursor_scan, api_request, sys_vars>>

\* run_migration_check when the scan raises: get_keys_near_expiry returns []
\* (client.py, lines 243-245) and the run returns its initial statistics
\* (migration_service.py, lines 54-56)
run_migration_check_scan_raises(r) ==
    /\ FreeSlot(r)
    /\ failures < MaxFailures
    /\ failures' = failures + 1
    /\ runs' = [runs EXCEPT ![r] =
                   [pc |-> "done", kind |-> "check", stats |-> NewRun("check", {}).stats,
                    scan_raised |-> TRUE]]
    /\ UNCHANGED <<config_vars, dedup_vars, time_vars, redis, store_vars,
                   history_vars>>

\* no stand-alone scan has been recorded: the run goes on
Unscanned == scan_result = NoScan

\* the periodic check before any preview, one invocation at a time
CacheCheck ==
    /\ Unscanned
    /\ NoRunInFlight
    /\ preview_response = NoPreview
    /\ run_migration_check("run1")

CacheCheckRaises ==
    /\ Unscanned
    /\ NoRunInFlight
    /\ preview_response = NoPreview
    /\ run_migration_check_scan_raises("run1")

CachePreview(camera_id) ==
    /\ Unscanned
    /\ preview_camera_migration(camera_id)

\* run_once(camera_id, force) right after the preview of the camera, the
\* cache being what the preview read
run_once(camera_id, force) ==
    /\ Unscanned
    /\ NoRunInFlight
    /\ preview_response # NoPreview
    /\ preview_response.camera_id = camera_id
    /\ preview_response.seen = redis
    /\ migrate_camera_history("run1", camera_id, force)

CacheStore(r) == Unscanned /\ StoreEvent(r)
CacheDelete(r) == Unscanned /\ DeleteKeys(r)
CacheReturn(r) == Unscanned /\ Return(r)

CacheNext ==
    \/ \E camera_id \in Cameras \cup {""}, threshold_seconds \in ScanThresholds :
           Scan(camera_id, threshold_seconds)
    \/ CacheCheck
    \/ CacheCheckRaises
    \/ \E camera_id \in Cameras : CachePreview(camera_id)
    \/ \E camera_id \in Cameras, force \in BOOLEAN : run_once(camera_id, force)
    \/ \E r \in RunIds : CacheStore(r) \/ CacheDelete(r) \/ CacheReturn(r)

SpecCache == CacheInit /\ [][CacheNext]_vars

(***************************************************************************)
(* get_keys_near_expiry, one await at a time, while the cache changes      *)
(***************************************************************************)
\* everything the scan and the concurrent cache traffic leave alone
scan_frame ==
    <<config_vars, d_scanned, d_pc, d_captions, d_i, current_group,
      grouped_events, d_members, d_closed, persist_vars, similar_vars,
      preview_response, scan_result, api_request, store_vars, runs, failures,
      beat_ran, folded>>

\* a record of cam1 with `ttl` seconds left when the scan is called, at second
\* REDIS_TTL_2HOUR: it was stored at second `ttl`
ScanRecord(ttl) ==
    CacheRecord(<<>>, "cam1", ttl * 1000, ContentA, ttl, FALSE)

\* records about to expire, just near expiry and just not near expiry, and a
\* record of the other camera
ScanCaches ==
    {a @@ b @@ c @@ other :
     a \in {<<>>, ScanRecord(30)},
     b \in {<<>>, ScanRecord(REDIS_MIGRATION_THRESHOLD)},
     c \in {<<>>, ScanRecord(REDIS_MIGRATION_THRESHOLD + 1)},
     other \in {CacheRecord(<<>>, "cam2", REDIS_MIGRATION_THRESHOLD * 1000,
                            ContentA, REDIS_MIGRATION_THRESHOLD, FALSE)}}

ScanInit ==
    /\ min_duration = MIN_CAPTION_DURATION
    /\ max_duration = MAX_CAPTION_DURATION
    /\ d_scanned = {}
    /\ d_pc = "idle"
    /\ d_captions = <<>>
    /\ d_i = 0
    /\ current_group = NoGroup
    /\ grouped_events = <<>>
    /\ d_members = {}
    /\ d_closed = <<>>
    /\ PersistQuiet
    /\ SimilarQuiet
    /\ preview_response = NoPreview
    /\ scan_result = NoScan
    /\ cursor_scan = NoCursorScan
    /\ api_request = NoRequest
    /\ clock = REDIS_TTL_2HOUR
    /\ ticks = 0
    /\ redis \in ScanCaches
    /\ neo4j_cameras = Cameras
    /\ neo4j_events = EmptyBag
    /\ event_id_constraint = TRUE
    /\ runs = [r \in RunIds |-> IdleRun]
    /\ failures = 0
    /\ beat_ran = FALSE
    /\ stored = {k \in DOMAIN redis : k[1] = "meta"}
    /\ reaped = {}
    /\ folded = EmptyBag

\* the keys of the cache that match the pattern of the scan
Matching(cache, camera_id) ==
    {k \in DOMAIN cache : k[1] = "meta" /\ (camera_id = "" \/ k[2] = camera_id)}

\* client.ttl(key): -2 for a key that does not exist
TtlOf(cache, key) == IF key \in DOMAIN cache THEN cache[key].ttl ELSE 0 - 2

\* NearExpiry for entries that were not near expiry one beat earlier
NearExpirySince(ttl, threshold) ==
    threshold - BEAT_SCHEDULE < ttl /\ ttl <= threshold

\* line 209: 0 < ttl <= threshold
NearExpiry(ttl, threshold) ==
    0 < ttl /\ ttl <= threshold

\* lines 182-195: the call; SCAN will return every matching key that stays
\* in the cache until the iteration ends
ScanBegin(camera_id, threshold_seconds) ==
    /\ cursor_scan.pc = "idle"
    /\ LET threshold == IF threshold_seconds = 0
                        THEN REDIS_MIGRATION_THRESHOLD ELSE threshold_seconds
       IN  cursor_scan' =
               [pc |-> "scan", camera_id |-> camera_id, threshold |-> threshold,
                todo |-> Matching(redis, camera_id), keys |-> {},
                key |-> <<>>, ttl |-> 0, expiring_keys |-> {},
                at_start |-> {item.key : item \in
                                 get_keys_near_expiry(redis, camera_id,
                                                      threshold_seconds)}]
    /\ UNCHANGED <<scan_frame, time_vars, redis, stored, reaped>>

\* lines 196-201: one SCAN call with count=100, more than the cache ever
\* holds here, returns the keys still to come; a key stored after the call
\* comes with a later call
ScanCall ==
    /\ cursor_scan.pc = "scan"
    /\ cursor_scan.todo # {}
    /\ cursor_scan' = [cursor_scan EXCEPT
                          !.pc = "keys",
                          !.keys = cursor_scan.todo,
                          !.todo = {}]
    /\ UNCHANGED <<scan_frame, time_vars, redis, stored, reaped>>

\* lines 203-209: the TTL of the next key of the batch
ScanTtl ==
    /\ cursor_scan.pc = "keys"
    /\ \E key \in cursor_scan.keys :
           IF NearExpiry(TtlOf(redis, key), cursor_scan.threshold)
           THEN cursor_scan' = [cursor_scan EXCEPT
                                   !.pc = "get", !.key = key,
                                   !.ttl = TtlOf(redis, key),
                                   !.keys = cursor_scan.keys \ {key}]
           ELSE cursor_scan' = [cursor_scan EXCEPT
                                   !.keys = cursor_scan.keys \ {key}]
    /\ UNCHANGED <<scan_frame, time_vars, redis, stored, reaped>>

\* lines 210-231: get_caption_with_metadata of the key and the append
ScanGet ==
    /\ cursor_scan.pc = "get"
    /\ LET key == cursor_scan.key
           meta_data == get_caption_with_metadata(redis, key[2], key[3])
       IN  cursor_scan' = [cursor_scan EXCEPT
               !.pc = "keys",
               !.key = <<>>,
               !.ttl = 0,
               !.expiring_keys =
                   IF meta_data = Missing THEN cursor_scan.expiring_keys
                   ELSE cursor_scan.expiring_keys \cup
                            {[key |-> key, camera_id |-> key[2],
                              timestamp |-> key[3],
                              ttl_remaining |-> cursor_scan.ttl,
                              data |-> meta_data]}]
    /\ UNCHANGED <<scan_frame, time_vars, redis, stored, reaped>>

\* lines 237-238: the batch is done; next SCAN call unless the cursor is 0
ScanLoop ==
    /\ cursor_scan.pc = "keys"
    /\ cursor_scan.keys = {}
    /\ cursor_scan' = [cursor_scan EXCEPT
                          !.pc = IF cursor_scan.todo = {} THEN "done" ELSE "scan"]
    /\ UNCHANGED <<scan_frame, time_vars, redis, stored, reaped>>

\* the cache was empty of matching keys: the first SCAN returns cursor 0
ScanEmpty ==
    /\ cursor_scan.pc = "scan"
    /\ cursor_scan.todo = {}
    /\ cursor_scan' = [cursor_scan EXCEPT !.pc = "done"]
    /\ UNCHANGED <<scan_frame, time_vars, redis, stored, reaped>>

ScanRunning == cursor_scan.pc \in {"scan", "keys", "get"}

\* a producer stores the caption of the frame taken now; the SCAN in progress
\* may or may not come across the new key
ScanProducer(seen) ==
    /\ ScanRunning
    /\ Cardinality({k \in stored : k[3] >= REDIS_TTL_2HOUR * 1000}) < MaxStores
    /\ MetaKey("cam1", clock * 1000) \notin stored
    /\ redis' = store_caption_with_metadata(redis, "cam1", clock * 1000,
                    ContentA.caption, ContentA.embedding, ContentA.confidence)
    /\ stored' = stored \cup {MetaKey("cam1", clock * 1000)}
    /\ cursor_scan' =
           IF seen /\ cursor_scan.camera_id \in {"", "cam1"}
           THEN [cursor_scan EXCEPT
                    !.todo = cursor_scan.todo \cup {MetaKey("cam1", clock * 1000)}]
           ELSE cursor_scan
    /\ UNCHANGED <<scan_frame, time_vars, reaped>>

\* a migration run of a camera, forced or not, deletes the keys it scanned
ScanReaper(camera_id, force) ==
    /\ ScanRunning
    /\ LET threshold == IF force THEN REDIS_TTL_2HOUR ELSE REDIS_MIGRATION_THRESHOLD
           keys == {item.key : item \in
                       get_keys_near_expiry(redis, camera_id, threshold)}
       IN  /\ keys # {}
           /\ redis' = mark_for_deletion(redis, keys).cache
           /\ reaped' = reaped \cup {<<k, "written">> : k \in keys}
    /\ UNCHANGED <<scan_frame, time_vars, stored, cursor_scan>>

\* a beat interval passes between two awaits of the scan
ScanTick ==
    /\ ScanRunning
    /\ ticks < MaxScanTicks
    /\ ticks' = ticks + 1
    /\ clock' = clock + BEAT_SCHEDULE
    /\ redis' = Expire(redis, BEAT_SCHEDULE)
    /\ UNCHANGED <<scan_frame, stored, reaped, cursor_scan>>

ScanNext ==
    \/ \E camera_id \in {"", "cam1"},
          threshold_seconds \in {0} :
           ScanBegin(camera_id, threshold_seconds)
    \/ ScanCall
    \/ ScanTtl
    \/ ScanGet
    \/ ScanLoop
    \/ ScanEmpty
    \/ \E seen \in BOOLEAN : ScanProducer(seen)
    \/ \E camera_id \in Cameras, force \in BOOLEAN : ScanReaper(camera_id, force)
    \/ ScanTick

SpecScan == ScanInit /\ [][ScanNext]_vars

(***************************************************************************)
(* The periodic task and the migration API on a given cache, with failures *)
(***************************************************************************)
\* the record of the camera at the timestamp holds metadata without a caption
Defect(cache, camera_id, timestamp) ==
    [cache EXCEPT ![MetaKey(camera_id, timestamp)].value = Defective]

\* cam1: a record near expiry, sound or not, alone or followed by a record of
\* the same scene that is near expiry too or still fresh
ApiFirstCameraCaches ==
    {first @@ second :
        first \in {CacheRecord(<<>>, "cam1", 0, ContentA, 200, FALSE),
                   Defect(CacheRecord(<<>>, "cam1", 0, ContentA, 200, FALSE),
                          "cam1", 0)},
        second \in {<<>>,
                    CacheRecord(<<>>, "cam1", 60000, ContentA, 250, FALSE),
                    CacheRecord(<<>>, "cam1", 60000, ContentA, 7000, FALSE)}}

\* cam2: nothing, or two records of one scene near expiry, the first of them
\* sound or not
ApiSecondCameraCaches ==
    LET pair == CacheRecord(CacheRecord(<<>>, "cam2", 0, ContentA, 200, FALSE),
                            "cam2", 30000, ContentA, 230, FALSE)
    IN  {<<>>, pair, Defect(pair, "cam2", 0)}

ApiInit ==
    /\ min_duration = MIN_CAPTION_DURATION
    /\ max_duration = MAX_CAPTION_DURATION
    /\ DedupQuiet
    /\ clock = 0
    /\ ticks = 0
    /\ redis \in {a @@ b : a \in ApiFirstCameraCaches, b \in ApiSecondCameraCaches}
    /\ neo4j_cameras \in {Cameras, {"cam2"}}
    /\ neo4j_events = EmptyBag
    /\ event_id_constraint = TRUE
    /\ runs = [r \in RunIds |-> IdleRun]
    /\ failures = 0
    /\ beat_ran = FALSE
    /\ stored = {k \in DOMAIN redis : k[1] = "meta"}
    /\ reaped = {}
    /\ folded = EmptyBag

\* the beat task calls run_migration_check (migration_task.py, line 43)
ApiCheck ==
    /\ NoRunInFlight
    /\ api_request = NoRequest
    /\ run_migration_check("run1")

\* everything but api_request
api_frame == <<config_vars, d_scanned, d_pc, d_captions, d_i, current_group,
               grouped_events, d_members, d_closed, persist_vars, similar_vars,
               preview_response, scan_result, cursor_scan>>

\* DELETE /camera/{camera_id}/cache arrives (endpoints/migration.py, 305-317)
ClearRequested(camera_id, migrate_first) ==
    /\ NoRunInFlight
    /\ api_request = NoRequest
    /\ api_request' = [status |-> "received", endpoint |-> "clear",
                       camera_id |-> camera_id, migrate_first |-> migrate_first]
    /\ UNCHANGED <<api_frame, sys_vars>>

\* lines 319-326: await migrate_camera_history(camera_id, force=True)
ClearMigrates ==
    /\ api_request.status = "received"
    /\ api_request.endpoint = "clear"
    /\ api_request.migrate_first
    /\ migrate_camera_history("run1", api_request.camera_id, TRUE)

\* lines 330-339: clear_camera_cache and the response
ClearClears ==
    /\ api_request.status = "received"
    /\ api_request.endpoint = "clear"
    /\ IF api_request.migrate_first
       THEN runs["run1"].pc = "done" ELSE runs["run1"].pc = "idle"
    /\ LET res == clear_camera_cache(redis, api_request.camera_id)
       IN  /\ redis' = res.cache
           /\ api_request' = [api_request EXCEPT !.status = "cleared"]
                                 @@ [keys_deleted |-> res.deleted]
    /\ UNCHANGED <<api_frame, time_vars, store_vars, runs, failures, history_vars>>

\* POST /camera/{camera_id}/migrate (endpoints/migration.py, 112-158)
force_migrate_camera(camera_id, force) ==
    /\ NoRunInFlight
    /\ api_request = NoRequest
    /\ LET expiring_keys ==
               get_keys_near_expiry(redis, camera_id,
                                    IF force THEN PREVIEW_THRESHOLD ELSE 0)
       IN  api_request' =
               IF expiring_keys = {} /\ ~force
               THEN [status |-> "nothing_to_migrate", endpoint |-> "migrate",
                     camera_id |-> camera_id, force |-> force, keys_found |-> 0]
               ELSE [status |-> "triggered", endpoint |-> "migrate",
                     camera_id |-> camera_id, force |-> force,
                     keys_to_process |-> Cardinality(expiring_keys)]
    /\ UNCHANGED <<api_frame, sys_vars>>

\* the background task (migration_task.py, 80-101):
\* migrate_camera_history(camera_id, force=True)
force_migrate_camera_task ==
    /\ api_request.status = "triggered"
    /\ migrate_camera_history("run1", api_request.camera_id, TRUE)

ApiStore == StoreEvent("run1")
ApiStoreRaises == StoreEventRaises("run1")
ApiDelete == DeleteKeys("run1")
ApiDeleteRaises == DeleteKeysRaises("run1")
ApiRaised == CameraRaised("run1")

ApiNext ==
    \/ ApiCheck
    \/ \E camera_id \in Cameras, migrate_first \in BOOLEAN :
           ClearRequested(camera_id, migrate_first)
    \/ ClearMigrates
    \/ ClearClears
    \/ \E camera_id \in Cameras, force \in BOOLEAN :
           force_migrate_camera(camera_id, force)
    \/ force_migrate_camera_task
    \/ ApiStore
    \/ ApiStoreRaises
    \/ ApiDelete
    \/ ApiDeleteRaises
    \/ ApiRaised

SpecApi == ApiInit /\ [][ApiNext]_vars

(***************************************************************************)
(* Properties of the grouping pass (SpecDedup)                             *)
(***************************************************************************)
\* the input record that opened the current group
Opener == CHOOSE r \in SeqToSet(d_captions) : r.timestamp = current_group.start_time

\* a loop iteration that processed d_captions[d_i]
IterationStep == d_pc = "loop" /\ d_pc' = "loop" /\ d_i' = d_i + 1

\* the iteration added the record to the current group
Joined ==
    /\ current_group'.start_time = current_group.start_time
    /\ current_group'.count = current_group.count + 1

\* the save filter, written on the fields of a group
PassesFilter(group) ==
    group.count > 1 \/ group.end_time - group.start_time >= min_duration * 1000

\* C8 (as claimed): the group that is open when the pass ends is always
\* emitted, so the returned list is never empty and ends with a group that
\* ends at the last input record.
C8_LastGroupAlwaysEmitted ==
    d_pc = "done" =>
        /\ grouped_events # <<>>
        /\ grouped_events[Len(grouped_events)].end_time
               = d_captions[Len(d_captions)].timestamp

\* C8 (amended): the final flush applies the same save filter as an interior
\* flush: the last group is emitted iff frame_count > 1 or
\* end_time - start_time >= min_duration, otherwise it is dropped.
C8_LastGroupFiltered ==
    [][(d_pc = "loop" /\ d_pc' = "done") =>
          grouped_events' =
              IF PassesFilter(current_group)
              THEN Append(grouped_events, current_group)
              ELSE grouped_events]_vars

\* a pass of at least two records has returned and its last group, a single
\* record of duration 0 < min_duration, is not among the events
C8_Witness ==
    /\ d_pc = "done"
    /\ Len(d_captions) >= 2
    /\ min_duration > 0
    /\ current_group.count = 1
    /\ current_group.start_time = d_captions[Len(d_captions)].timestamp
    /\ \A k \in 1..Len(grouped_events) :
           grouped_events[k].end_time < current_group.start_time

\* C9: a group flushed because the next record does not extend it is
\* appended to the result iff frame_count > 1 or
\* end_time - start_time >= min_duration; otherwise the result is unchanged.
C9_InteriorSaveFilter ==
    [][(IterationStep /\ ~Joined) =>
          grouped_events' =
              IF PassesFilter(current_group)
              THEN Append(grouped_events, current_group)
              ELSE grouped_events]_vars

\* an interior flush has emitted a two-frame group shorter than min_duration
\* and the next record has opened a new group
C9_Witness ==
    /\ d_pc = "loop"
    /\ d_i = 4
    /\ Len(grouped_events) = 1
    /\ grouped_events[1].count = 2
    /\ grouped_events[1].end_time - grouped_events[1].start_time
           < min_duration * 1000
    /\ current_group.start_time = d_captions[3].timestamp

\* C10: the record of an iteration joins the current group iff it is similar
\* to the group's first record and lies within max_duration of the group's
\* start; a joining record moves end_time and frame_count only (caption and
\* embedding stay the opener's); otherwise the record opens a new group.
C10_ExtensionRule ==
    [][IterationStep =>
          LET r == d_captions[d_i]
              extends ==
                  /\ are_captions_similar(Opener.data.caption, r.data.caption,
                                          Opener.data.embedding, r.data.embedding)
                  /\ r.timestamp - current_group.start_time <= max_duration * 1000
          IN  /\ Joined <=> extends
              /\ extends =>
                     /\ current_group'.end_time = r.timestamp
                     /\ current_group'.caption = Opener.data.caption
                     /\ current_group'.embedding = Opener.data.embedding
              /\ ~extends =>
                     /\ current_group'.start_time = r.timestamp
                     /\ current_group'.end_time = r.timestamp
                     /\ current_group'.count = 1
                     /\ current_group'.caption = r.data.caption
                     /\ current_group'.embedding = r.data.embedding]_vars

\* C10 witness: three records were joined into one group that spans exactly
\* max_duration; the second record's embedding differs from the opener's and
\* the group still carries the opener's embedding.
C10_Witness ==
    /\ d_pc = "loop"
    /\ d_i = 4
    /\ current_group.count = 3
    /\ current_group.end_time - current_group.start_time = max_duration * 1000
    /\ current_group.embedding = d_captions[1].data.embedding
    /\ d_captions[1].data.embedding # d_captions[2].data.embedding
    /\ d_captions[1].data.embedding # NoEmbedding

\* the groups formed so far, with their members: the closed ones and the
\* one that is open
FormedGroups ==
    IF d_pc = "loop"
    THEN Append(d_closed, ClosedGroup(current_group, d_members))
    ELSE d_closed

\* the input positions the pass has processed
Processed == IF d_pc = "loop" THEN 1..(d_i - 1) ELSE 1..Len(d_captions)

RECURSIVE SumOfCounts(_)
SumOfCounts(groups) ==
    IF groups = <<>> THEN 0
    ELSE Head(groups).group.count + SumOfCounts(Tail(groups))

\* the members form a run of consecutive positions
IsRun(members) ==
    /\ members # {}
    /\ \A a, b \in members : \A j \in a..b : j \in members

\* C11: the groups formed by a pass (emitted or dropped) split the camera's
\* sorted records into consecutive contiguous runs: every processed record is
\* in exactly one group, every group has frame_count >= 1 equal to the number
\* of its records, the counts sum to the number of records, start_time <=
\* end_time, the records of the pass are exactly the scanned records of one
\* camera, and every emitted event is one of the groups.
C11_ContiguousPartition ==
    d_pc # "idle" =>
        LET groups == FormedGroups
        IN  /\ UNION {groups[k].members : k \in 1..Len(groups)} = Processed
            /\ \A k, l \in 1..Len(groups) :
                   k < l => \A a \in groups[k].members :
                                \A b \in groups[l].members : a < b
            /\ SumOfCounts(groups) = Cardinality(Processed)
            /\ \A k \in 1..Len(groups) :
                   /\ IsRun(groups[k].members)
                   /\ groups[k].group.count >= 1
                   /\ groups[k].group.count = Cardinality(groups[k].members)
                   /\ groups[k].group.start_time <= groups[k].group.end_time
                   /\ \A a, b \in groups[k].members :
                          d_captions[a].camera_id = d_captions[b].camera_id
            /\ \A a, b \in 1..Len(d_captions) :
                   a < b => d_captions[a].timestamp < d_captions[b].timestamp
            /\ SeqToSet(d_captions)
                   = {item \in d_scanned : item.camera_id = d_captions[1].camera_id}
            /\ \A k \in 1..Len(grouped_events) :
                   \E l \in 1..Len(d_closed) : d_closed[l].group = grouped_events[k]

\* C11 witness: a periodic run scanned two cameras; the pass over three
\* records of one camera has returned two groups, one emitted and one dropped.
C11_Witness ==
    /\ d_pc = "done"
    /\ Cardinality(CameraIds(d_scanned)) = 2
    /\ Len(d_captions) = 3
    /\ Len(d_closed) = 2
    /\ Len(grouped_events) = 1

\* the events of the grouping example
ExampleEvents ==
    <<[start_time |-> 0, end_time |-> 120000, duration |-> 120000,
       frame_count |-> 3, caption |-> EmptyRoom],
      [start_time |-> 400000, end_time |-> 460000, duration |-> 60000,
       frame_count |-> 2, caption |-> PersonEnters]>>

\* C12: every emitted event, as written to the store, has start_time = the
\* timestamp of its first record, end_time = the timestamp of its last
\* record, duration = end_time - start_time, frame_count = the number of its
\* records and the caption of its first record; the records at 0, 60, 120,
\* 400 and 460 s with captions A, A, A, B, B, max_duration 300 and
\* min_duration 30 give exactly the events (0, 120, 3, A) and (400, 460, 2, B).
C12_GroupingResult ==
    d_pc = "done" =>
        /\ \A k \in 1..Len(grouped_events) :
               \E l \in 1..Len(d_closed) :
                   LET members == d_closed[l].members
                       first == CHOOSE a \in members : \A b \in members : a <= b
                       last == CHOOSE a \in members : \A b \in members : a >= b
                       node == EventNode(d_captions[1].camera_id,
                                         grouped_events[k], clock)
                   IN  /\ d_closed[l].group = grouped_events[k]
                       /\ node.start_time = d_captions[first].timestamp
                       /\ node.end_time = d_captions[last].timestamp
                       /\ node.duration = node.end_time - node.start_time
                       /\ node.frame_count = Cardinality(members)
                       /\ node.caption = d_captions[first].data.caption
        /\ (d_scanned = ExampleScan /\ min_duration = ExampleMinDuration
                /\ max_duration = MAX_CAPTION_DURATION) =>
               [k \in 1..Len(grouped_events) |->
                   LET node == EventNode("cam1", grouped_events[k], clock)
                   IN  [start_time |-> node.start_time,
                        end_time |-> node.end_time,
                        duration |-> node.duration,
                        frame_count |-> node.frame_count,
                        caption |-> node.caption]] = ExampleEvents

\* C12 witness: the pass over the five records of the example has returned
\* two events.
C12_Witness ==
    /\ d_pc = "done"
    /\ d_scanned = ExampleScan
    /\ Len(d_captions) = 5
    /\ Len(grouped_events) = 2

(***************************************************************************)
(* Properties of the similarity test (SpecSimilar)                         *)
(***************************************************************************)
\* C13: for every pair of records a and b, with or without embeddings, of
\* equal or different embedding lengths, with empty or non-empty captions,
\* similar(a, b) = similar(b, a).
C13_SimilaritySymmetric ==
    Len(s_calls) = 2 => s_calls[1].result = s_calls[2].result

\* C13 witness: both orders were compared for two different records, one
\* without an embedding and one with, and the records are similar.
C13_Witness ==
    /\ Len(s_calls) = 2
    /\ s_a.caption # s_b.caption
    /\ s_a.embedding = NoEmbedding
    /\ s_b.embedding # NoEmbedding
    /\ s_calls[1].result

\* both embeddings are present and of equal length
BothEmbedded(call) ==
    /\ call.embedding1 # <<>>
    /\ call.embedding2 # <<>>
    /\ Len(call.embedding1) = Len(call.embedding2)

\* the lowercased, trimmed caption and its tokens
Normalized(caption) == Strip(Lower(caption))
Tokens(caption) == Words(Normalized(caption))

\* C14: when an embedding is missing or the lengths differ, two records are
\* similar if their lowercased, trimmed captions are equal, and otherwise iff
\* both token sets are non-empty and |common tokens| / max(|tokens|) >= 0.8;
\* the embedding comparison decides only when both embeddings are present
\* with equal length.
C14_TextFallback ==
    \A k \in 1..Len(s_calls) :
        LET call == s_calls[k]
            t1 == Tokens(call.caption1)
            t2 == Tokens(call.caption2)
        IN  /\ ~BothEmbedded(call) =>
                   (call.result <=>
                       \/ Normalized(call.caption1) = Normalized(call.caption2)
                       \/ /\ t1 # {}
                          /\ t2 # {}
                          /\ 10 * Cardinality(t1 \cap t2)
                                 >= 8 * Max(Cardinality(t1), Cardinality(t2)))
            /\ BothEmbedded(call) =>
                   (call.result <=>
                       CosineAtLeast(call.embedding1, call.embedding2,
                                     CAPTION_SIMILARITY_THRESHOLD))

\* C14 witness: two records whose embeddings differ in length and whose
\* captions share four of five tokens were compared and found similar.
C14_Witness ==
    /\ s_calls # <<>>
    /\ s_calls[1].caption1 = FiveWords
    /\ s_calls[1].caption2 = FiveWordsOther
    /\ s_calls[1].embedding1 # <<>>
    /\ s_calls[1].embedding2 # <<>>
    /\ Len(s_calls[1].embedding1) # Len(s_calls[1].embedding2)
    /\ s_calls[1].result

(***************************************************************************)
(* Properties of preview, scan and runs on a given cache (SpecCache)       *)
(***************************************************************************)
\* the step is a call of the preview endpoint
PreviewStep == preview_response' # preview_response

\* C15: a preview leaves every cache key with its value and TTL, the Camera
\* nodes and the set of durable events unchanged, and starts no run.
C15_PreviewNonDestructive ==
    [][PreviewStep =>
          /\ redis' = redis
          /\ neo4j_events' = neo4j_events
          /\ neo4j_cameras' = neo4j_cameras
          /\ runs' = runs]_vars

\* C15 witness: a preview has reported events for a camera whose records are
\* still in the cache, and nothing has been written to the store.
C15_Witness ==
    /\ preview_response.status = "preview"
    /\ preview_response.deduplicated_events >= 1
    /\ preview_response.seen = redis
    /\ redis # <<>>
    /\ neo4j_events = EmptyBag

\* C16: the number of events a preview reports for a camera equals
\* events_created of the run_once for that camera executed right afterwards
\* on the cache the preview read.
C16_PreviewAgreesWithRun ==
    \A r \in RunIds :
        (/\ runs[r].pc = "done"
         /\ runs[r].kind = "camera"
         /\ preview_response.status = "preview") =>
            runs[r].stats.events_created = preview_response.deduplicated_events

\* C17: a preview that found captions reports the reduction
\* (captions_found - events) / captions_found as a percentage rounded to a
\* tenth, between 0 and 100, and 60.0 for five records grouped into two
\* events; a preview that found no caption reports no data and no reduction.
C17_ReductionMetric ==
    /\ preview_response.status = "preview" =>
           LET found == preview_response.original_captions
               events == preview_response.deduplicated_events
               tenths == preview_response.reduction
           IN  /\ found > 0
               /\ 0 <= tenths /\ tenths <= 1000
               /\ 2 * (tenths * found - 1000 * (found - events)) <= found
               /\ 2 * (1000 * (found - events) - tenths * found) <= found
               /\ (found = 5 /\ events = 2) => tenths = 600
    /\ preview_response # NoPreview =>
           (preview_response.status = "no_data"
               <=> get_keys_near_expiry(preview_response.seen,
                       preview_response.camera_id, PREVIEW_THRESHOLD) = {})
    /\ preview_response.status = "no_data" =>
           /\ preview_response.captions_found = 0
           /\ "reduction" \notin DOMAIN preview_response

\* C17 witness: the preview of the five example records reported two events
\* and a reduction of 60.0 percent.
C17_Witness ==
    /\ preview_response.status = "preview"
    /\ preview_response.original_captions = 5
    /\ preview_response.deduplicated_events = 2
    /\ preview_response.reduction = 600

\* the meta entries of the cache that match the camera filter, have
\* 0 < ttl <= threshold and hold a record that resolves
Eligible(cache, camera_id, threshold) ==
    {k \in DOMAIN cache :
        /\ k[1] = "meta"
        /\ camera_id = "" \/ k[2] = camera_id
        /\ 0 < cache[k].ttl
        /\ cache[k].ttl <= threshold
        /\ cache[k].value # Malformed}

\* C18: for every threshold_seconds the caller passes, the scan returns
\* exactly the meta entries of the camera filter with 0 < ttl <=
\* threshold_seconds whose record resolves.
C18_ScanEligibility ==
    scan_result.called =>
        {item.key : item \in scan_result.keys}
            = Eligible(redis, scan_result.camera_id, scan_result.threshold_seconds)

\* the meta entries near expiry whose value does not parse
MalformedNearExpiry(cache) ==
    {k \in DOMAIN cache :
        /\ k[1] = "meta"
        /\ 0 < cache[k].ttl
        /\ cache[k].ttl <= REDIS_MIGRATION_THRESHOLD
        /\ cache[k].value = Malformed}

\* C19: a scan skips an entry whose metadata does not parse and returns all
\* other eligible entries; a periodic run counts every skipped entry in its
\* errors, and reports a scan that failed as a whole as an error.
C19_MalformedCounted ==
    /\ (scan_result.called
            /\ scan_result.threshold_seconds = REDIS_MIGRATION_THRESHOLD) =>
           {item.key : item \in scan_result.keys}
               = Eligible(redis, scan_result.camera_id, REDIS_MIGRATION_THRESHOLD)
    /\ \A r \in RunIds :
           (runs[r].pc = "done" /\ runs[r].kind = "check") =>
               /\ runs[r].stats.errors >= Cardinality(MalformedNearExpiry(redis))
               /\ "scan_raised" \in DOMAIN runs[r] => runs[r].stats.errors >= 1

(***************************************************************************)
(* Properties of the migration runs (Spec, SpecBeat, SpecPersist)          *)
(***************************************************************************)
ReapedKeys == {x[1] : x \in reaped}

\* some durable event of the key's camera spans the record's timestamp
Represented(k) ==
    \E n \in BagToSet(neo4j_events) :
        n.camera_id = k[2] /\ n.start_time <= k[3] /\ k[3] <= n.end_time

\* C1: a run deletes the cache keys of a record only when the write of the
\* merged event the record was folded into returned success: no key is reaped
\* by a run whose write of the record's group failed or raised.
C1_NoReapAfterFailedWrite ==
    \A x \in reaped : x[2] # "failed"

\* C2: every record a run removes from the cache was folded into a merged
\* event that the same run wrote durably, also when the record's group was
\* rejected by the save filter.
C2_ReapedWereWritten ==
    \A x \in reaped : x[2] = "written"

\* C3: with the periodic check returning in every beat interval and no call
\* failing, every record that has left the cache (reaped or expired) lies in
\* some durably written merged event.
C3_GoneIsRepresented ==
    \A k \in stored : k \notin DOMAIN redis => Represented(k)

\* C4: two calls of the writer with the same camera_id and merged event, the
\* camera existing, both report success and leave exactly one Event node
\* with the event's id.
C4_PersistIdempotent ==
    (Len(p_results) = 2 /\ p_camera \in neo4j_cameras) =>
        /\ p_results = <<TRUE, TRUE>>
        /\ \A n \in BagToSet(neo4j_events) :
               n.id = EventId(p_camera, p_event.start_time) =>
                   CopiesIn(n, neo4j_events) = 1
        /\ Cardinality({n \in BagToSet(neo4j_events) :
               n.id = EventId(p_camera, p_event.start_time)}) = 1

\* C5: whatever runs are repeated over keys that were not deleted, the
\* durable store never holds more than one Event per (camera_id, start_time).
C5_OneRecordPerStart ==
    \A n \in BagToSet(neo4j_events) :
        /\ CopiesIn(n, neo4j_events) = 1
        /\ \A m \in BagToSet(neo4j_events) :
               (m.camera_id = n.camera_id /\ m.start_time = n.start_time) => m = n

\* the invocations that are between the scan and the return of a pass over
\* the camera
InFlight(camera_id) ==
    {r \in RunIds : runs[r].pc \in {"store", "delete"}
                    /\ runs[r].camera_id = camera_id}

\* C6: at most one scan-group-write-reap pass is in flight for a camera at
\* any time.
C6_OnePassPerCamera ==
    \A c \in Cameras : Cardinality(InFlight(c)) <= 1

\* C7: under any interleaving of invocations, a record is folded into at most
\* one durably written merged event, and no record whose group an invocation
\* in flight failed to write has been deleted by another invocation.
C7_RecordInOneEvent ==
    /\ \A k \in stored : CopiesIn(k, folded) <= 1
    /\ \A r \in RunIds :
           runs[r].pc \in {"store", "delete"} =>
               \A j \in 1..Len(runs[r].captions) :
                   Fate(runs[r], runs[r].captions[j]) = "failed" =>
                       runs[r].captions[j].key \notin ReapedKeys

(***************************************************************************)
(* Properties of the scan taken await by await (SpecScan)                  *)
(***************************************************************************)
\* the keys the finished scan returned
ScanReturned == {item.key : item \in cursor_scan.expiring_keys}

\* C20: while producers add keys and other runs delete keys during the
\* cursor-based scan, every entry that was eligible when the scan started and
\* is still present when the scan ends is in the scan result.
C20_ScanComplete ==
    cursor_scan.pc = "done" =>
        \A key \in cursor_scan.at_start :
            key \in DOMAIN redis => key \in ScanReturned

\* C20 witness: a scan has ended during which a producer stored a record, a
\* run deleted an entry that was eligible at the start, and time passed, and
\* an entry eligible at the start is still present.
C20_Witness ==
    /\ cursor_scan.pc = "done"
    /\ \E key \in cursor_scan.at_start : key \in DOMAIN redis /\ key \in ScanReturned
    /\ \E key \in cursor_scan.at_start : key \notin DOMAIN redis /\ key \in ReapedKeys
    /\ \E key \in stored : key[3] >= REDIS_TTL_2HOUR * 1000
    /\ clock > REDIS_TTL_2HOUR

(***************************************************************************)
(* Properties of the forced and unforced camera migration (SpecCache)      *)
(***************************************************************************)
\* the records of the camera in the cache whose metadata resolves
Resolvable(cache, camera_id) ==
    {k \in DOMAIN cache :
        k[1] = "meta" /\ k[2] = camera_id /\ cache[k].value # Malformed}

\* the records an invocation that has scanned goes on to process
ScannedKeys(run) ==
    IF run.pc = "done" THEN {}
    ELSE {run.captions[k].key : k \in 1..Len(run.captions)}

\* "captions_processed": len(expiring_keys) (line 399; 0 at line 386)
captions_processed(run) == run.stats.captions_found

\* C21: migrate_camera_history(camera_id, force=True) processes every
\* resolvable record of the camera that is in the cache and reports their
\* number as captions_processed; with force=False it processes exactly those
\* with ttl <= REDIS_MIGRATION_THRESHOLD.
C21_ForcedCoversWindow ==
    [][\A camera_id \in Cameras, force \in BOOLEAN :
          migrate_camera_history("run1", camera_id, force) =>
              LET expected ==
                      {k \in Resolvable(redis, camera_id) :
                          force \/ redis[k].ttl <= REDIS_MIGRATION_THRESHOLD}
              IN  /\ ScannedKeys(runs'["run1"]) = expected
                  /\ captions_processed(runs'["run1"]) = Cardinality(expected)]_vars

\* C21 witness: a camera migration is processing a record that has more than
\* the migration threshold left to live, while the other camera holds a
\* record that does not resolve.
C21_Witness ==
    /\ runs["run1"].pc \in {"store", "delete"}
    /\ runs["run1"].kind = "camera"
    /\ \E k \in 1..Len(runs["run1"].captions) :
           runs["run1"].captions[k].ttl_remaining > REDIS_MIGRATION_THRESHOLD
    /\ captions_processed(runs["run1"]) = 2
    /\ \E c \in Cameras, k \in DOMAIN redis :
           k[1] = "meta" /\ k[2] # runs["run1"].camera_id /\ redis[k].value = Malformed

(***************************************************************************)
(* Properties of the periodic task and the API under failures (SpecApi)    *)
(***************************************************************************)
\* the records of the camera that the scan of the periodic check found: they
\* are gone, or still near expiry
FoundByCheck(camera_id) ==
    {k \in stored :
        /\ k[2] = camera_id
        /\ k \in DOMAIN redis => redis[k].ttl <= REDIS_MIGRATION_THRESHOLD}

\* the camera's records have been grouped, every group that passed the save
\* filter has been written, and every record has been reaped
WrittenAndReaped(camera_id) ==
    \A k \in FoundByCheck(camera_id) :
        /\ k \notin DOMAIN redis
        /\ \E x \in reaped : x[1] = k /\ x[2] \in {"written", "dropped"}

\* the camera cannot be processed whatever happens to the other cameras: one
\* of its records has no caption, or the durable store has no such camera
FailsByItself(camera_id) ==
    \/ \E k \in DOMAIN redis :
           k[1] = "meta" /\ k[2] = camera_id /\ redis[k].value = Defective
    \/ camera_id \notin neo4j_cameras

\* C22: an invocation in which a call has failed goes on to return (no
\* exception leaves run_migration_check or migrate_camera_history), and when a
\* periodic check has returned, the cameras that were not grouped, written
\* and reaped are those whose own processing failed: no more cameras than
\* calls have raised, besides the cameras that cannot be processed at all.
C22_FailureIsolation ==
    /\ \A r \in RunIds :
           runs[r].pc \in {"store", "delete", "raised"} =>
               ENABLED (StoreEvent(r) \/ DeleteKeys(r) \/ CameraRaised(r))
    /\ (runs["run1"].pc = "done" /\ runs["run1"].kind = "check") =>
           Cardinality({c \in Cameras :
                           ~WrittenAndReaped(c) /\ ~FailsByItself(c)}) <= failures

\* C22 witness: in a periodic check the processing of cam1 has raised, and
\* the check has gone on to group and write the records of cam2 and is about
\* to reap them.
C22_Witness ==
    /\ runs["run1"].pc = "delete"
    /\ runs["run1"].kind = "check"
    /\ runs["run1"].camera_id = "cam2"
    /\ runs["run1"].stats.errors = 1
    /\ runs["run1"].stats.events_created = 1
    /\ \E n \in BagToSet(neo4j_events) : n.camera_id = "cam2"
    /\ redis[MetaKey("cam1", 0)].value = Defective

\* C23: when an invocation has returned and the durable write of at least
\* one group of it failed (the store returned false or raised), the returned
\* statistics have errors > 0.
C23_WriteFailureCounted ==
    \A r \in RunIds :
        (/\ runs[r].pc = "done"
         /\ runs[r].kind = "check"
         /\ \E x \in reaped : x[2] = "failed") =>
            runs[r].stats.errors > 0

\* C27: when DELETE /camera/{camera_id}/cache with migrate_first=true has
\* answered, every record of the camera that is gone from the cache has been
\* folded into an event that was written: the cache entries are cleared only
\* after their records were durably written.
C27_ClearAfterDurableWrite ==
    (api_request.status = "cleared" /\ api_request.migrate_first) =>
        \A k \in stored :
            (k[2] = api_request.camera_id /\ k \notin DOMAIN redis) =>
                CopiesIn(k, folded) >= 1

\* C28: when POST /camera/{camera_id}/migrate was called with force=false,
\* the migration it triggers processes only records of the camera whose
\* remaining TTL is within the migration threshold.
C28_EndpointHonoursForce ==
    (/\ api_request.status = "triggered"
     /\ ~api_request.force
     /\ runs["run1"].pc \in {"store", "delete"}) =>
        \A k \in 1..Len(runs["run1"].captions) :
            runs["run1"].captions[k].ttl_remaining <= REDIS_MIGRATION_THRESHOLD

\* C29: when a grouping pass has returned, any two different groups it
\* emitted are handed to the writer under different event ids.
C29_DistinctEventIds ==
    d_pc = "done" =>
        \A i, j \in 1..Len(grouped_events) :
            i # j =>
                EventId(d_captions[1].camera_id, grouped_events[i].start_time)
                    # EventId(d_captions[1].camera_id, grouped_events[j].start_time)

(***************************************************************************)
(* Properties of the writer under failures (SpecWriter)                    *)
(***************************************************************************)
\* C24: a call of the writer that fails (the camera is not in the store, the
\* store rejects the CREATE, or the query raises) returns false, and the
\* store is as it was before the call: no Event node and no CAPTURED
\* relationship has been added; every call returns a boolean; and no Event
\* node is ever in the store without its camera.
C24_PersistFailureClean ==
    [][/\ (Len(p_results') > Len(p_results) /\ ~p_results'[Len(p_results')]) =>
              neo4j_events' = neo4j_events
       /\ (Len(p_results') > Len(p_results) /\ p_camera \notin neo4j_cameras) =>
              (~p_results'[Len(p_results')] /\ neo4j_events' = neo4j_events)
       /\ \A k \in 1..Len(p_results') : p_results'[k] \in BOOLEAN
       /\ \A n \in BagToSet(neo4j_events') : n.camera_id \in neo4j_cameras']_vars

\* C24 witness: the writer has been called twice for a camera that the store
\* does not have; one call found no camera and one call raised; both
\* returned false and the store holds no event.
C24_Witness ==
    /\ p_results = <<FALSE, FALSE>>
    /\ p_camera \notin neo4j_cameras
    /\ failures = 1
    /\ neo4j_events = EmptyBag

(***************************************************************************)
(* Properties of the event id (SpecEventId)                                *)
(***************************************************************************)
\* the camera and the whole second of the start time
IdPair(x) == <<x.camera_id, x.start_time \div 1000>>

\* C25: the id of a persisted event is determined by the camera and the
\* start time truncated to the second, and by nothing else: two events in the
\* store have the same id exactly when they have the same camera and the
\* same second, whenever they were written; and with the uniqueness
\* constraint on Event.id a call is rejected exactly when an earlier
\* successful call had the same camera and second.
C25_DeterministicEventId ==
    /\ \A a, b \in BagToSet(neo4j_events) :
           a.id = b.id <=> IdPair(a) = IdPair(b)
    /\ \A n \in BagToSet(neo4j_events) :
           n.id = EventId(n.camera_id, (n.start_time \div 1000) * 1000)
    /\ event_id_constraint =>
           \A j \in 1..Len(p_results) :
               ~p_results[j].success <=>
                   \E i \in 1..(j - 1) :
                       /\ p_results[i].success
                       /\ IdPair(p_results[i]) = IdPair(p_results[j])

\* C25 witness: the store holds two events of one camera written on
\* different days with different start times in the same second, and they
\* have the same id.
C25_Witness ==
    \E a, b \in BagToSet(neo4j_events) :
        /\ a.camera_id = "c" /\ b.camera_id = "c"
        /\ a.start_time = 0 /\ b.start_time = 400
        /\ a.retention_until # b.retention_until
        /\ a.id = b.id

(***************************************************************************)
(* Properties of the reaper and of the keys (SpecKeys)                     *)
(***************************************************************************)
\* the cache keys of the records that the producer stored for the camera
KeysOfCamera(camera_id) ==
    {FormatKey(facet, f[1], IsoFormat(f[2])) :
        facet \in Facets, f \in {x \in stored : x[1] = camera_id}}

\* the frames whose meta key is among the keys
FramesOf(keys) ==
    {f \in stored : FormatKey("meta", f[1], IsoFormat(f[2])) \in keys}

\* C26: when mark_for_deletion returns, the caption, embedding and meta key
\* of every record whose key it was given are gone from the cache, and the
\* value returned is the number of keys the call removed; when the DEL
\* raises, the call returns 0 and the cache is as it was.
C26_ReapEveryFacet ==
    [][\A r \in RunIds :
          (runs[r].pc = "reap" /\ runs'[r].pc = "done") =>
              IF runs'[r].raised
              THEN runs'[r].deleted = 0 /\ redis' = redis
              ELSE /\ \A f \in FramesOf(runs[r].keys), facet \in Facets :
                          FormatKey(facet, f[1], IsoFormat(f[2]))
                              \notin DOMAIN redis'
                   /\ runs'[r].deleted =
                          Cardinality(DOMAIN redis \ DOMAIN redis')
                   /\ DOMAIN redis' \subseteq DOMAIN redis]_vars

\* C26 witness: a reap has removed the six keys of the two records of camera
\* c_1, one of them with a fraction in its timestamp, and returned 6; the
\* reap of an overlapping invocation that held the same keys has returned 0.
C26_Witness ==
    /\ runs["run1"].pc = "done" /\ runs["run2"].pc = "done"
    /\ runs["run1"].camera_id = "c_1" /\ runs["run2"].camera_id = "c_1"
    /\ FramesOf(runs["run1"].keys) = {<<"c_1", 0>>, <<"c_1", 60400>>}
    /\ runs["run1"].deleted = 6 /\ ~runs["run1"].raised
    /\ runs["run2"].deleted = 0 /\ ~runs["run2"].raised
    /\ KeysOfCamera("c_1") \cap DOMAIN redis = {}

====
